---- MODULE Spec2Model ----
(***************************************************************************)
(* Model of the meeting-transcription tool: temporal alignment of          *)
(* diarization turns and transcript segments, the staged cache of the      *)
(* three-stage pipeline, the post-validation of AI speaker mappings and    *)
(* the parallel batch scheduler.  Each subsystem has its own               *)
(* specification over its own variables; the variables of the other        *)
(* subsystems stay at their idle values.                                   *)
(***************************************************************************)
EXTENDS Integers, Sequences, FiniteSets, TLC

VARIABLES
    \* ---- alignment (transcriber.find_speaker_for_segment)
    whisper_segment,        \* [start_ms, end_ms] of the transcript segment
    diarization_segments,   \* sequence of [start_s, end_s, speaker_label]
    dia_idx,                \* position of the for loop in diarization_segments
    max_overlap,            \* local max_overlap
    speaker_label,          \* local speaker_label
    align_pc,               \* "idle" | "loop" | "done"
    \* ---- post-processing of the AI mappings (speaker_identifier, speaker_validator)
    raw_mappings,           \* the dict parsed from the AI response, in insertion order
    seg_labels,             \* the 'speaker' of every segment passed in, in order
    meeting_type,           \* pre_analysis.meeting_type
    mentioned_only,         \* the mentioned-only names of the pre-analysis
    mappings,               \* local `mappings` of _identify_with_openai
    val_pc,                 \* "idle" | "parsed" | "validated" | "enforced" | "filtered"
    \* ---- cache keys (cache_manager.get_cache_key)
    key_call,               \* the arguments of two calls
    key_result,             \* the keys they returned
    key_pc,                 \* "idle" | "call" | "return"
    \* ---- Stage 1 and its cache (pipeline_stages, cache_manager)
    audio_file,             \* the audio file on disk: its bytes and modification time
    stage1_file,            \* <stem>_stage1_transcript.json in the output directory
    s1_made,                \* history: the call and file state that wrote stage1_file
    s1_args,                \* the arguments of the current or last call of Stage 1
    s1_pc,                  \* "idle" | "check" | "transcribe" | "returned_cached"
                            \* | "returned_saved" | "raised"
    \* ---- Stage 2 and its cache (pipeline_stages, cache_manager)
    stage2_file,            \* <stem>_stage2_speaker_mappings.json in the output directory
    s2_made,                \* history: the call that wrote stage2_file
    s2_args,                \* the arguments of the current or last call of Stage 2
    s2_pc,                  \* "idle" | "check" | "identify" | "returned_cached"
                            \* | "returned_saved" | "raised"
    \* ---- batch mode (cli._batch_transcribe)
    parallel,               \* the --parallel option: not given, or an integer
    cpu_count,              \* what multiprocessing.cpu_count() returns
    n_files,                \* len(audio_files): the files are 1 .. n_files
    identify_speakers,      \* the identify_speakers flag
    max_workers,            \* max_workers: as passed in, then as clamped
    task,                   \* per file: where its process_file task stands
    warned,                 \* files whose metrics hold an identification warning
    recorded,               \* files whose future the main loop has handled
    success_count,
    failed_files,
    all_metrics,            \* the files whose metrics were collected, in order
    completed,
    batch_pc,               \* "idle" | "cli" | "start" | "loop" | "done"
    \* ---- pre-analysis quality score (speaker_quality_analyzer._calculate_quality_score)
    speaker_count,          \* len(unique_speakers)
    mentioned_names,        \* the names found in the text
    self_intros,            \* label -> name of the self-introductions, as [label, name]
    qa_meeting_type,        \* meeting_type as _detect_meeting_type returned it
    filename,               \* "none" | "no_names" | "names": what the filename yields
    score,                  \* local score, in tenths
    qa_issues,              \* local issues
    qa_pc,                  \* "idle" | "one_on_one" | "mentioned" | "intros" | "filename"
                            \* | "normalize" | "returned"
    \* ---- transcription retries (transcriber.transcribe_with_whisper_async)
    max_retries,            \* the max_retries argument
    poll_interval,          \* the poll_interval argument, in seconds
    attempt,                \* the loop variable of `for attempt in range(max_retries)`
    attempts,               \* history: the outcome of every attempt made, in order
    sleeps,                 \* history: the duration of every asyncio.sleep, in order
    response,               \* local response: unbound, or the response of an attempt
    raised,                 \* the exception that left the function, if any
    retry_pc,               \* "idle" | "loop" | "sleep" | "after_loop" | "returned"
                            \* | "raised"
    \* ---- validation result (speaker_validator.validate_mappings)
    vm_mappings,            \* the mappings argument, in insertion order
    diarization_speaker_count,
    vm_meeting_type,        \* the meeting_type argument
    vm_filename,            \* "none" | "no_names" | "names": what the filename yields
    analysis,               \* "none" | "plain" | "with_mentioned_only"
    issues,                 \* local issues
    needs_refinement,       \* local needs_refinement
    corrected_mappings,     \* local corrected_mappings
    confidence,             \* ValidationResult.confidence, "" before the return
    is_valid,               \* ValidationResult.is_valid
    vm_pc,                  \* "idle" | "count_1on1" | "count_diar" | "unknown"
                            \* | "mentioned" | "result" | "returned"
    \* ---- refinement decision (speaker_validator.should_trigger_refinement)
    validation_result,      \* the ValidationResult argument: is_valid, needs_refinement
    quality_score,          \* the quality_score argument, in tenths
    trigger,                \* "unset" | "true" | "false": the value returned
    trig_pc,                \* "idle" | "valid" | "score" | "flag" | "returned"
    \* ---- one file through an entry point (cli._process_single_file,
    \*      pipeline_stages.run_full_pipeline)
    entry,                  \* "single" (_process_single_file) | "full" (run_full_pipeline)
    fp_identify_speakers,   \* the identify_speakers argument
    fp_ai_model,            \* the ai_model argument
    service_calls,          \* history: every call of an external service, in order
    speakers_assigned,      \* the segments carry the labels find_speaker_for_segment gave
    fp_mappings,            \* "none" | "empty" | "some": the mappings obtained
    stage1_returned,        \* "no" | "cached" | "saved": how Stage 1 returned its path
    stage2_returned,        \* "no" | "cached" | "saved": how Stage 2 returned its path
    started,                \* history: the stages of run_full_pipeline entered, in order
    fp_warnings,            \* metrics.warnings
    identify_raised,        \* history: identify_speakers was left by an exception
    written,                \* "none" | "generic" | "named": the exported transcript files
    fp_pc,                  \* position in the entry point; "returned" | "raised" at the end
    \* ---- the paths two tasks write (cache_manager, exporter)
    in_files,               \* the two input files, as the glob returned them
    wr_entry,               \* "single" | "full": the entry point the tasks run
    paths_written,          \* per task: the paths it has written under the output directory
    wr_pc,                  \* per task: "cache" | "export" | "done"; "idle" when not running
    \* ---- the objects batch tasks touch (cli.process_file, speaker_identifier, ai_logger)
    sh_identify_speakers,   \* the identify_speakers flag of the batch
    sh_ai_model,            \* the ai_model of the batch
    global_logger,          \* ai_logger._global_logger: "None" | "AILogger"
    genai_configured,       \* the google.generativeai package holds a configuration
    accessed,               \* history: per object, the tasks that read or wrote it
    sh_pc,                  \* per task: "pipeline" | "identify" | "generate" | "export"
                            \* | "done"; "idle" when not running
    \* ---- the mappings Stage 2 persists (pipeline_stages.stage2_identify_speakers)
    p_ai_model,             \* the ai_model argument
    ai_response,            \* the dict parsed from the AI response, in insertion order
    p_seg_labels,           \* the 'speaker' of every segment of the transcript, in order
    pre_analysis,           \* analysis: meeting_type, mentioned_names, self_introductions
    p_mappings,             \* local mappings of stage2_identify_speakers
    persisted,              \* mapping_data["mappings"] as written to the Stage-2 artifact
    p_pc,                   \* "idle" | "identify" | "validate" | "save" | "saved"
    \* ---- AI request/response logging inside _identify_with_openai (ai_logger.AILogger)
    lg_model,               \* model_name
    lg_response,            \* the mappings parsed from the AI response
    lg_pre,                 \* pre_analysis (present: the Stage-2 call)
    lg_mappings,            \* local mappings after post-processing
    request_log,            \* the ai_request_*.json file: "absent" | "written"
    response_log,           \* the *_response.json file: "absent" | "written"
    lg_log_failed,          \* history: log_request or log_response raised
    lg_returned,            \* TRUE once a SpeakerIdentificationResult was returned
    lg_result,              \* its mappings
    lg_pc,                  \* "idle" | "log_request" | "chat" | "log_response" | "returned" | "raised"
    \* ---- an artifact write that is interrupted, then looked up (save / is_stageN_cached)
    cut_stage,              \* 1 | 2: which artifact is written
    cut_model,              \* whisper_model (Stage 1) or ai_model (Stage 2) of the writing run
    cut_check_model,        \* the same argument of the run that looks the artifact up
    cut_document,           \* the JSON text json.dump is producing, as tokens
    cut_file,               \* [exists, content]: the file at the artifact's path
    cut_interrupted,        \* history: the write stopped before the document was complete
    cut_hit,                \* is_cached of the lookup
    cut_pc,                 \* "idle" | "open" | "dump" | "crashed" | "saved" | "checked"
    \* ---- meeting-type detection (speaker_quality_analyzer._detect_meeting_type)
    det_filename,           \* filename: the audio path of the artifact, as word tokens
    det_context,            \* context: <<>> for None, else word tokens
    det_speaker_count,      \* speaker_count
    text_to_check,          \* the local text_to_check
    det_result,             \* the returned type, "none" for None, "unset" before the return
    det_pc,                 \* "idle" | "text" | "marker" | "interview" | "review" | "count" | "returned"
    \* ---- self-introductions and mentioned names of a transcript (speaker_quality_analyzer)
    si_segments,            \* segments: records [speaker, text], text as word tokens
    si_idx,                 \* index of the segment the loop of _find_self_introductions is at
    intros,                 \* the local intros dict, in insertion order
    si_mentioned,           \* _extract_mentioned_names(segments)
    si_mentioned_only,      \* identify_actual_speakers_vs_mentioned(...)['mentioned_only']
    si_mappings,            \* the AI's mappings: every introduced label to the name it spoke
    si_filtered,            \* filter_mentioned_names(si_mappings, mentioned_only)
    si_pc,                  \* "idle" | "intros" | "mentioned" | "split" | "filter" | "done"
    \* ---- Stage 3: names applied to the segments (pipeline_stages.stage3_apply_speaker_names)
    s3_segments,            \* intermediate.segments: records [start_ms, end_ms, text, speaker]
    s3_mapping_file,        \* speaker_mapping_file: "none" (None) | "missing" | "file"
    s3_file_mappings,       \* mapping_data['mappings'] of the file, when there is one
    s3_formats,             \* formats
    s3_mappings,            \* the local mappings
    segments_generic,       \* the local segments_generic
    segments_named,         \* the local segments_named
    written_files,          \* what the exporters were given: records [file, segments]
    s3_pc,                  \* "idle" | "load" | "convert" | "txt" | "speakers" | "others" | "done"
    \* ---- Stage 2's post-validation: validate_mappings, then should_trigger_refinement
    rf_mappings,            \* mappings
    rf_speaker_count,       \* num_speakers
    rf_meeting_type,        \* analysis.meeting_type
    rf_filename,            \* what the filename yields: "none" | "no_names" | "names"
    rf_analysis,            \* the analysis argument
    rf_quality_score,       \* analysis.quality_score, in tenths
    validation,             \* the ValidationResult
    rf_trigger,             \* should_trigger_refinement(...): "unset" | "true" | "false"
    rf_pc,                  \* "idle" | "validate" | "valid" | "score" | "flag" | "returned"
    \* ---- the temporary WAV file of run_diarization (diarization.run_diarization)
    dz_audio_path,          \* the audio_path argument (file name)
    dz_token,               \* where the token comes from: "argument" | "environment" | "none"
    dz_cuda,                \* torch.cuda.is_available()
    temp_wav_path,          \* the local temp_wav_path: "none" (None) | "tmp.wav"
    temp_wav_exists,        \* the file made by tempfile.mkstemp is on disk
    dz_input,               \* the path handed to the pipeline
    dz_exit,                \* "none" | "returned" | "raised"
    dz_pc                   \* "idle" | "token" | "convert" | "load" | "device" | "run" | "finally" | "exit"

alignVars == <<whisper_segment, diarization_segments, dia_idx, max_overlap,
               speaker_label, align_pc>>

valVars == <<raw_mappings, seg_labels, meeting_type, mentioned_only, mappings, val_pc>>

keyVars == <<key_call, key_result, key_pc>>

stage1Vars == <<audio_file, stage1_file, s1_made, s1_args, s1_pc>>

stage2Vars == <<stage2_file, s2_made, s2_args, s2_pc>>

batchVars == <<parallel, cpu_count, n_files, identify_speakers, max_workers, task,
               warned, recorded, success_count, failed_files, all_metrics, completed,
               batch_pc>>

qaVars == <<speaker_count, mentioned_names, self_intros, qa_meeting_type, filename,
            score, qa_issues, qa_pc>>

retryVars == <<max_retries, poll_interval, attempt, attempts, sleeps, response, raised,
               retry_pc>>

vmVars == <<vm_mappings, diarization_speaker_count, vm_meeting_type, vm_filename,
            analysis, issues, needs_refinement, corrected_mappings, confidence,
            is_valid, vm_pc>>

trigVars == <<validation_result, quality_score, trigger, trig_pc>>

fileVars == <<entry, fp_identify_speakers, fp_ai_model, service_calls,
              speakers_assigned, fp_mappings, stage1_returned, stage2_returned,
              started, fp_warnings, identify_raised, written, fp_pc>>

wrVars == <<in_files, wr_entry, paths_written, wr_pc>>

shVars == <<sh_identify_speakers, sh_ai_model, global_logger, genai_configured,
            accessed, sh_pc>>

persistVars == <<p_ai_model, ai_response, p_seg_labels, pre_analysis, p_mappings,
                 persisted, p_pc>>

logVars == <<lg_model, lg_response, lg_pre, lg_mappings, request_log, response_log,
             lg_log_failed, lg_returned, lg_result, lg_pc>>

cutVars == <<cut_stage, cut_model, cut_check_model, cut_document, cut_file,
             cut_interrupted, cut_hit, cut_pc>>

detectVars == <<det_filename, det_context, det_speaker_count, text_to_check,
                det_result, det_pc>>

introVars == <<si_segments, si_idx, intros, si_mentioned, si_mentioned_only,
               si_mappings, si_filtered, si_pc>>

stage3Vars == <<s3_segments, s3_mapping_file, s3_file_mappings, s3_formats,
                s3_mappings, segments_generic, segments_named, written_files, s3_pc>>

refineVars == <<rf_mappings, rf_speaker_count, rf_meeting_type, rf_filename,
                rf_analysis, rf_quality_score, validation, rf_trigger, rf_pc>>

diarVars == <<dz_audio_path, dz_token, dz_cuda, temp_wav_path, temp_wav_exists,
              dz_input, dz_exit, dz_pc>>

vars == <<alignVars, valVars, keyVars, stage1Vars, stage2Vars, batchVars, qaVars,
          retryVars, vmVars, trigVars, fileVars, wrVars, shVars, persistVars, logVars,
          cutVars, detectVars, introVars, stage3Vars, refineVars, diarVars>>

\* the state of a subsystem that is not running
AlignIdle ==
    /\ whisper_segment = [start_ms |-> 0, end_ms |-> 0]
    /\ diarization_segments = <<>>
    /\ dia_idx = 0
    /\ max_overlap = 0
    /\ speaker_label = "Unknown"
    /\ align_pc = "idle"

ValIdle ==
    /\ raw_mappings = <<>>
    /\ seg_labels = <<>>
    /\ meeting_type = "none"
    /\ mentioned_only = {}
    /\ mappings = <<>>
    /\ val_pc = "idle"

KeyIdle ==
    /\ key_call = <<>>
    /\ key_result = <<>>
    /\ key_pc = "idle"

\* what an action of one subsystem leaves alone in the others
AlignFrame == UNCHANGED <<valVars, keyVars, stage1Vars, stage2Vars, batchVars, qaVars,
    retryVars, vmVars, trigVars, fileVars, wrVars, shVars, persistVars, logVars,
    cutVars, detectVars, introVars, stage3Vars, refineVars, diarVars>>
ValFrame == UNCHANGED <<alignVars, keyVars, stage1Vars, stage2Vars, batchVars, qaVars,
    retryVars, vmVars, trigVars, fileVars, wrVars, shVars, persistVars, logVars,
    cutVars, detectVars, introVars, stage3Vars, refineVars, diarVars>>
KeyFrame == UNCHANGED <<alignVars, valVars, stage1Vars, stage2Vars, batchVars, qaVars,
    retryVars, vmVars, trigVars, fileVars, wrVars, shVars, persistVars, logVars,
    cutVars, detectVars, introVars, stage3Vars, refineVars, diarVars>>
Stage1Frame == UNCHANGED <<alignVars, valVars, keyVars, stage2Vars, batchVars, qaVars,
    retryVars, vmVars, trigVars, fileVars, wrVars, shVars, persistVars, logVars,
    cutVars, detectVars, introVars, stage3Vars, refineVars, diarVars>>
Stage2Frame == UNCHANGED <<alignVars, valVars, keyVars, stage1Vars, batchVars, qaVars,
    retryVars, vmVars, trigVars, fileVars, wrVars, shVars, persistVars, logVars,
    cutVars, detectVars, introVars, stage3Vars, refineVars, diarVars>>
BatchFrame == UNCHANGED <<alignVars, valVars, keyVars, stage1Vars, stage2Vars, qaVars,
    retryVars, vmVars, trigVars, fileVars, wrVars, shVars, persistVars, logVars,
    cutVars, detectVars, introVars, stage3Vars, refineVars, diarVars>>
QaFrame == UNCHANGED <<alignVars, valVars, keyVars, stage1Vars, stage2Vars, batchVars,
    retryVars, vmVars, trigVars, fileVars, wrVars, shVars, persistVars, logVars,
    cutVars, detectVars, introVars, stage3Vars, refineVars, diarVars>>
RetryFrame == UNCHANGED <<alignVars, valVars, keyVars, stage1Vars, stage2Vars,
                          batchVars, qaVars, vmVars, trigVars, fileVars, wrVars, shVars,
    persistVars, logVars, cutVars, detectVars, introVars, stage3Vars, refineVars,
    diarVars>>
VmFrame == UNCHANGED <<alignVars, valVars, keyVars, stage1Vars, stage2Vars, batchVars,
                       qaVars, retryVars, trigVars, fileVars, wrVars, shVars,
    persistVars, logVars, cutVars, detectVars, introVars, stage3Vars, refineVars,
    diarVars>>
TrigFrame == UNCHANGED <<alignVars, valVars, keyVars, stage1Vars, stage2Vars,
                         batchVars, qaVars, retryVars, vmVars, fileVars, wrVars, shVars,
    persistVars, logVars, cutVars, detectVars, introVars, stage3Vars, refineVars,
    diarVars>>
FileFrame == UNCHANGED <<alignVars, valVars, keyVars, stage1Vars, stage2Vars,
                         batchVars, qaVars, retryVars, vmVars, trigVars, wrVars, shVars,
    persistVars, logVars, cutVars, detectVars, introVars, stage3Vars, refineVars,
    diarVars>>
WrFrame == UNCHANGED <<alignVars, valVars, keyVars, stage1Vars, stage2Vars, batchVars,
                       qaVars, retryVars, vmVars, trigVars, fileVars, shVars,
    persistVars, logVars, cutVars, detectVars, introVars, stage3Vars, refineVars,
    diarVars>>
ShFrame == UNCHANGED <<alignVars, valVars, keyVars, stage1Vars, stage2Vars, batchVars,
                       qaVars, retryVars, vmVars, trigVars, fileVars, wrVars,
    persistVars, logVars, cutVars, detectVars, introVars, stage3Vars, refineVars,
    diarVars>>
PersistFrame == UNCHANGED <<alignVars, valVars, keyVars, stage1Vars, stage2Vars,
                            batchVars, qaVars, retryVars, vmVars, trigVars, fileVars,
                            wrVars, shVars, logVars, cutVars, detectVars, introVars,
    stage3Vars, refineVars, diarVars>>
LogFrame == UNCHANGED <<alignVars, valVars, keyVars, stage1Vars, stage2Vars, batchVars,
                        qaVars, retryVars, vmVars, trigVars, fileVars, wrVars, shVars,
                        persistVars, cutVars, detectVars, introVars, stage3Vars,
    refineVars, diarVars>>
CutFrame == UNCHANGED <<alignVars, valVars, keyVars, stage1Vars, stage2Vars, batchVars,
                        qaVars, retryVars, vmVars, trigVars, fileVars, wrVars, shVars,
                        persistVars, logVars, detectVars, introVars, stage3Vars,
    refineVars, diarVars>>
DetectFrame == UNCHANGED <<alignVars, valVars, keyVars, stage1Vars, stage2Vars,
                           batchVars, qaVars, retryVars, vmVars, trigVars, fileVars,
                           wrVars, shVars, persistVars, logVars, cutVars, introVars,
    stage3Vars, refineVars, diarVars>>
IntroFrame == UNCHANGED <<alignVars, valVars, keyVars, stage1Vars, stage2Vars,
                          batchVars, qaVars, retryVars, vmVars, trigVars, fileVars,
                          wrVars, shVars, persistVars, logVars, cutVars, detectVars,
    stage3Vars, refineVars, diarVars>>
Stage3Frame == UNCHANGED <<alignVars, valVars, keyVars, stage1Vars, stage2Vars,
                           batchVars, qaVars, retryVars, vmVars, trigVars, fileVars,
                           wrVars, shVars, persistVars, logVars, cutVars, detectVars,
                           introVars, refineVars, diarVars>>
RefineFrame == UNCHANGED <<alignVars, valVars, keyVars, stage1Vars, stage2Vars,
                           batchVars, qaVars, retryVars, vmVars, trigVars, fileVars,
                           wrVars, shVars, persistVars, logVars, cutVars, detectVars,
                           introVars, stage3Vars, diarVars>>
DiarFrame == UNCHANGED <<alignVars, valVars, keyVars, stage1Vars, stage2Vars,
                         batchVars, qaVars, retryVars, vmVars, trigVars, fileVars,
                         wrVars, shVars, persistVars, logVars, cutVars, detectVars,
                         introVars, stage3Vars, refineVars>>

Min(a, b) == IF a <= b THEN a ELSE b
Max(a, b) == IF a >= b THEN a ELSE b

(***************************************************************************)
(* Alignment.  Times are kept on one integer grid: a transcript segment    *)
(* carries start_ms/end_ms, a diarization turn start_s/end_s; the code     *)
(* divides the former by 1000 to compare them, which is monotone, so both  *)
(* are held in the same grid units here.                                   *)
(***************************************************************************)
MaxTime == 3
MaxTurns == 2

TimeGrid == 0 .. MaxTime
SpeakerLabels == {"SPEAKER_00", "SPEAKER_01"}
Intervals == {iv \in TimeGrid \X TimeGrid : iv[1] <= iv[2]}

TranscriptSegments == {[start_ms |-> iv[1], end_ms |-> iv[2]] : iv \in Intervals}
SpeakerSegments ==
    {[start_s |-> iv[1], end_s |-> iv[2], speaker_label |-> l] :
        iv \in Intervals, l \in SpeakerLabels}

SeqsUpTo(S, n) == UNION {[1 .. k -> S] : k \in 0 .. n}

\* overlap_end - overlap_start of the loop body; negative for disjoint intervals
OverlapDuration(seg, dia) ==
    Min(seg.end_ms, dia.end_s) - Max(seg.start_ms, dia.start_s)

\* the mutation of the loop's test: a turn that only equals the running maximum wins
IsNewMaxOrEqual(overlap_duration, current_max) == overlap_duration >= current_max

\* the test `overlap_duration > max_overlap`
IsNewMax(overlap_duration, current_max) == overlap_duration > current_max

\* entry of find_speaker_for_segment: max_overlap = 0, speaker_label = "Unknown"
AlignInit ==
    /\ whisper_segment \in TranscriptSegments
    /\ diarization_segments \in SeqsUpTo(SpeakerSegments, MaxTurns)
    /\ dia_idx = 1
    /\ max_overlap = 0
    /\ speaker_label = "Unknown"
    /\ align_pc = "loop"

\* one iteration of `for dia_segment in diarization_segments`
FindSpeakerStep ==
    /\ align_pc = "loop"
    /\ dia_idx <= Len(diarization_segments)
    /\ LET dia == diarization_segments[dia_idx]
           overlap_duration == OverlapDuration(whisper_segment, dia)
       IN  IF IsNewMax(overlap_duration, max_overlap)
           THEN /\ max_overlap' = overlap_duration
                /\ speaker_label' = dia.speaker_label
           ELSE UNCHANGED <<max_overlap, speaker_label>>
    /\ dia_idx' = dia_idx + 1
    /\ UNCHANGED <<whisper_segment, diarization_segments, align_pc>>
    /\ AlignFrame

\* `return speaker_label` once the list is exhausted
FindSpeakerReturn ==
    /\ align_pc = "loop"
    /\ dia_idx > Len(diarization_segments)
    /\ align_pc' = "done"
    /\ UNCHANGED <<whisper_segment, diarization_segments, dia_idx, max_overlap,
                   speaker_label>>
    /\ AlignFrame

AlignNext == FindSpeakerStep \/ FindSpeakerReturn

\* the temporal overlap of a segment and a turn, max(0, min(ends) - max(starts))
TemporalOverlap(seg, dia) == Max(0, OverlapDuration(seg, dia))

TurnIdx == 1 .. Len(diarization_segments)

SomePositiveOverlap ==
    \E i \in TurnIdx : TemporalOverlap(whisper_segment, diarization_segments[i]) > 0

\* C1: when find_speaker_for_segment returns, the label is that of a turn whose
\* overlap with the segment is at least the overlap of every other turn, and it
\* is exactly "Unknown" when no turn has a positive overlap with the segment.
C1_AlignmentMaxOverlap ==
    align_pc = "done" =>
        IF SomePositiveOverlap
        THEN \E i \in TurnIdx :
                /\ speaker_label = diarization_segments[i].speaker_label
                /\ \A j \in TurnIdx :
                      TemporalOverlap(whisper_segment, diarization_segments[i])
                        >= TemporalOverlap(whisper_segment, diarization_segments[j])
        ELSE speaker_label = "Unknown"

\* a segment with two overlapping turns of different labels and different
\* overlaps, and a returned label
C1_Witness ==
    /\ align_pc = "done"
    /\ Len(diarization_segments) = 2
    /\ diarization_segments[1].speaker_label # diarization_segments[2].speaker_label
    /\ TemporalOverlap(whisper_segment, diarization_segments[2])
         > TemporalOverlap(whisper_segment, diarization_segments[1])
    /\ TemporalOverlap(whisper_segment, diarization_segments[1]) > 0
    /\ speaker_label = diarization_segments[2].speaker_label

\* the first turn of the list whose overlap with the segment is the largest
FirstMaxTurn ==
    CHOOSE i \in TurnIdx :
        /\ \A j \in TurnIdx :
              TemporalOverlap(whisper_segment, diarization_segments[i])
                >= TemporalOverlap(whisper_segment, diarization_segments[j])
        /\ \A j \in 1 .. i - 1 :
              TemporalOverlap(whisper_segment, diarization_segments[j])
                < TemporalOverlap(whisper_segment, diarization_segments[i])

\* C13: when several turns share the largest positive overlap with the segment,
\* find_speaker_for_segment returns the label of the one that comes first in the
\* diarization list, whatever the labels are.
C13_TieGoesToFirstTurn ==
    (align_pc = "done" /\ SomePositiveOverlap) =>
        speaker_label = diarization_segments[FirstMaxTurn].speaker_label

\* two turns with the same positive overlap, the first carrying the label that sorts
\* last: the first turn's label is returned
C13_Witness ==
    /\ align_pc = "done"
    /\ Len(diarization_segments) = 2
    /\ TemporalOverlap(whisper_segment, diarization_segments[1]) > 0
    /\ TemporalOverlap(whisper_segment, diarization_segments[1])
         = TemporalOverlap(whisper_segment, diarization_segments[2])
    /\ diarization_segments[1].speaker_label = "SPEAKER_01"
    /\ diarization_segments[2].speaker_label = "SPEAKER_00"
    /\ speaker_label = "SPEAKER_01"

(***************************************************************************)
(* Post-validation of the AI mappings.  A Python dict is an insertion-     *)
(* ordered sequence of [label, name] entries with distinct labels.         *)
(***************************************************************************)
MaxMappings == 5
MaxSegLabels == 4

\* the diarization labels, and for each the value of f"Speaker_{label.split('_')[-1]}"
LabelTable ==
    <<"SPEAKER_00", "SPEAKER_01", "SPEAKER_02", "SPEAKER_03", "SPEAKER_04",
      "SPEAKER_05", "SPEAKER_06">>
GenericTable ==
    <<"Speaker_00", "Speaker_01", "Speaker_02", "Speaker_03", "Speaker_04",
      "Speaker_05", "Speaker_06">>

MapLabels == {LabelTable[i] : i \in 1 .. Min(MaxMappings, Len(LabelTable))}
DiarLabels == {LabelTable[i] : i \in 1 .. 3}
PersonNames == {"Alice", "Bob"}

LabelIndex(label) == CHOOSE i \in 1 .. Len(LabelTable) : LabelTable[i] = label

\* dict helpers
Keys(m) == {m[i].label : i \in 1 .. Len(m)}
Values(m) == {m[i].name : i \in 1 .. Len(m)}
Lookup(m, label) == m[CHOOSE i \in 1 .. Len(m) : m[i].label = label].name
Entry(label, name) == [label |-> label, name |-> name]

\* the generic replacement name f"Speaker_{label.split('_')[-1]}"
GenericName(label) == GenericTable[LabelIndex(label)]

\* the mutation of the auto-correction: the two entries with the smallest labels
FirstTwoByLabel(m) ==
    IF Len(m) <= 2 THEN m
    ELSE LET Smallest(among) ==
                 CHOOSE i \in among :
                     \A j \in among : LabelIndex(m[i].label) <= LabelIndex(m[j].label)
             a == Smallest(1 .. Len(m))
             b == Smallest((1 .. Len(m)) \ {a})
         IN  <<m[a], m[b]>>

\* keys = list(mappings.keys())[:2]; {k: mappings[k] for k in keys}
FirstTwo(m) == SubSeq(m, 1, Min(2, Len(m)))

\* validate_mappings: the local corrected_mappings at the return statement
CorrectedMappings(m, mtype) ==
    IF mtype = "1-on-1" /\ Len(m) # 2 /\ Len(m) > 2 THEN FirstTwo(m) ELSE m

\* ValidationResult.corrected_mappings: None (here <<>> with the flag unset) when equal
HasCorrection(m, mtype) == CorrectedMappings(m, mtype) # m

\* Counter(diarization_labels).most_common(2): by count, ties in first-seen order
LabelCount(labels, l) == Cardinality({i \in 1 .. Len(labels) : labels[i] = l})
FirstSeen(labels, l) == CHOOSE i \in 1 .. Len(labels) :
    labels[i] = l /\ \A j \in 1 .. (i - 1) : labels[j] # l
RanksBefore(labels, a, b) ==
    \/ LabelCount(labels, a) > LabelCount(labels, b)
    \/ /\ LabelCount(labels, a) = LabelCount(labels, b)
       /\ FirstSeen(labels, a) < FirstSeen(labels, b)
UniqueLabels(labels) == {labels[i] : i \in 1 .. Len(labels)}
NthCommon(labels, n) ==
    CHOOSE l \in UniqueLabels(labels) :
        Cardinality({o \in UniqueLabels(labels) : RanksBefore(labels, o, l)}) = n - 1
\* the mutation of the choice of labels: the two labels seen first, whatever their counts
FirstSeen2(labels) ==
    LET first == labels[1]
        second == labels[CHOOSE i \in 1 .. Len(labels) :
                            labels[i] # first /\ \A j \in 1 .. (i - 1) : labels[j] = first]
    IN  <<first, second>>

\* [label for label, _ in label_counts.most_common(2)]
MostCommon2(labels) == <<NthCommon(labels, 1), NthCommon(labels, 2)>>

\* enforce_one_on_one(mappings, diarization_labels)
EnforceOneOnOne(m, labels) ==
    IF Cardinality(UniqueLabels(labels)) <= 2
    THEN m
    ELSE LET top == MostCommon2(labels)
         IN  [i \in 1 .. 2 |->
                 IF top[i] \in Keys(m)
                 THEN Entry(top[i], Lookup(m, top[i]))
                 ELSE Entry(top[i], GenericName(top[i]))]

\* filter_mentioned_names(mappings, mentioned_only_names)
FilterMentionedNames(m, names) ==
    [i \in 1 .. Len(m) |->
        IF m[i].name \notin names
        THEN m[i]
        ELSE Entry(m[i].label, GenericName(m[i].label))]

\* the dicts an AI response parses to: distinct labels, any person name per label
KeyOrders(n) ==
    {[i \in 1 .. n |-> LabelTable[i]], [i \in 1 .. n |-> LabelTable[n + 1 - i]]}
RawMappings ==
    UNION {{[i \in 1 .. n |-> Entry(ks[i], ns[i])] :
                ks \in KeyOrders(n), ns \in [1 .. n -> PersonNames]} :
           n \in 0 .. MaxMappings}

MentionedOnlySets == {{}, {"Bob"}}

\* _identify_with_openai after `mappings[generic_label] = actual_name`
ValInit ==
    /\ raw_mappings \in RawMappings
    /\ seg_labels \in SeqsUpTo(DiarLabels, MaxSegLabels)
    /\ meeting_type \in {"1-on-1", "interview"}
    /\ mentioned_only \in MentionedOnlySets
    /\ mappings = raw_mappings
    /\ val_pc = "parsed"

\* validate_mappings(...) and `if validation.corrected_mappings: mappings = ...`
ValidateAndCorrect ==
    /\ val_pc = "parsed"
    /\ mappings' = IF HasCorrection(mappings, meeting_type)
                      /\ CorrectedMappings(mappings, meeting_type) # <<>>
                   THEN CorrectedMappings(mappings, meeting_type)
                   ELSE mappings
    /\ val_pc' = "validated"
    /\ UNCHANGED <<raw_mappings, seg_labels, meeting_type, mentioned_only>>
    /\ ValFrame

\* `if pre_analysis.meeting_type == "1-on-1" and segments: enforce_one_on_one(...)`
EnforceIfOneOnOne ==
    /\ val_pc = "validated"
    /\ mappings' = IF meeting_type = "1-on-1" /\ seg_labels # <<>>
                   THEN EnforceOneOnOne(mappings, seg_labels)
                   ELSE mappings
    /\ val_pc' = "enforced"
    /\ UNCHANGED <<raw_mappings, seg_labels, meeting_type, mentioned_only>>
    /\ ValFrame

\* `if mentioned_only: mappings = filter_mentioned_names(mappings, mentioned_only)`
FilterIfMentioned ==
    /\ val_pc = "enforced"
    /\ mappings' = IF mentioned_only # {}
                   THEN FilterMentionedNames(mappings, mentioned_only)
                   ELSE mappings
    /\ val_pc' = "filtered"
    /\ UNCHANGED <<raw_mappings, seg_labels, meeting_type, mentioned_only>>
    /\ ValFrame

ValNext == ValidateAndCorrect \/ EnforceIfOneOnOne \/ FilterIfMentioned

\* C2: for a 1-on-1 meeting, the mapping after validate_mappings' correction and
\* enforce_one_on_one (applied to the segments' labels) has exactly 2 entries, for
\* raw AI mappings of size 1, 2, 3 or 5.
C2_OneOnOneHasTwo ==
    (/\ val_pc = "enforced"
     /\ meeting_type = "1-on-1"
     /\ seg_labels # <<>>
     /\ Len(raw_mappings) \in {1, 2, 3, 5})
        => Len(mappings) = 2

(***************************************************************************)
(* filter_mentioned_names on its own: any mapping, any supplied set.       *)
(***************************************************************************)
SuppliedNameSets == SUBSET (PersonNames \cup {GenericTable[1]})

FilterInit ==
    /\ raw_mappings \in RawMappings
    /\ mentioned_only \in SuppliedNameSets
    /\ seg_labels = <<>>
    /\ meeting_type = "none"
    /\ mappings = raw_mappings
    /\ val_pc = "filter_call"

\* a call filter_mentioned_names(raw_mappings, mentioned_only)
FilterCall ==
    /\ val_pc = "filter_call"
    /\ mappings' = FilterMentionedNames(raw_mappings, mentioned_only)
    /\ val_pc' = "filter_return"
    /\ UNCHANGED <<raw_mappings, seg_labels, meeting_type, mentioned_only>>
    /\ ValFrame

\* C10: the result of filter_mentioned_names holds no value of the supplied set,
\* has the keys of the input mapping, and leaves every value outside the set unchanged.
C10_FilterRemovesMentioned ==
    val_pc = "filter_return" =>
        /\ Values(mappings) \cap mentioned_only = {}
        /\ Len(mappings) = Len(raw_mappings)
        /\ \A i \in 1 .. Len(raw_mappings) :
              /\ mappings[i].label = raw_mappings[i].label
              /\ raw_mappings[i].name \notin mentioned_only
                    => mappings[i].name = raw_mappings[i].name

(***************************************************************************)
(* enforce_one_on_one on its own: any mapping, any list of segment labels. *)
(***************************************************************************)
EnforceInit ==
    /\ raw_mappings \in RawMappings
    /\ seg_labels \in SeqsUpTo(DiarLabels, MaxSegLabels)
    /\ meeting_type = "1-on-1"
    /\ mentioned_only = {}
    /\ mappings = raw_mappings
    /\ val_pc = "enforce_call"

\* a call enforce_one_on_one(raw_mappings, seg_labels)
EnforceCall ==
    /\ val_pc = "enforce_call"
    /\ mappings' = EnforceOneOnOne(raw_mappings, seg_labels)
    /\ val_pc' = "enforce_return"
    /\ UNCHANGED <<raw_mappings, seg_labels, meeting_type, mentioned_only>>
    /\ ValFrame

\* C17: when the segment labels have more than two distinct members, the mapping
\* returned by enforce_one_on_one has exactly 2 entries, and its keys are two labels
\* whose segment counts are not below the count of any other label.
C17_KeepsTwoMostFrequent ==
    (val_pc = "enforce_return" /\ Cardinality(UniqueLabels(seg_labels)) > 2) =>
        /\ Len(mappings) = 2
        /\ Cardinality(Keys(mappings)) = 2
        /\ Keys(mappings) \subseteq UniqueLabels(seg_labels)
        /\ \A k \in Keys(mappings) : \A l \in UniqueLabels(seg_labels) \ Keys(mappings) :
              LabelCount(seg_labels, k) >= LabelCount(seg_labels, l)

\* three labels over four segments, the label seen last being the most frequent: it is
\* kept, together with the first-seen of the two others
C17_Witness ==
    /\ val_pc = "enforce_return"
    /\ Cardinality(UniqueLabels(seg_labels)) = 3
    /\ Len(seg_labels) = 4
    /\ LabelCount(seg_labels, seg_labels[4]) = 2
    /\ Len(raw_mappings) = 3
    /\ Keys(mappings) = {seg_labels[1], seg_labels[4]}

\* C18: when enforce_one_on_one consolidates more than two labels, every label of the
\* segments outside the two most frequent is still a key of the returned mapping,
\* mapped to the generic placeholder of its own id.
C18_OtherLabelsRelabelled ==
    (val_pc = "enforce_return" /\ Cardinality(UniqueLabels(seg_labels)) > 2) =>
        \A l \in UniqueLabels(seg_labels) :
            (l # NthCommon(seg_labels, 1) /\ l # NthCommon(seg_labels, 2))
                => (l \in Keys(mappings) /\ Lookup(mappings, l) = GenericName(l))

(***************************************************************************)
(* Cache keys (cache_manager.get_cache_key).  A Python value is a tagged   *)
(* record; a string built by formatting is the sequence of its pieces.     *)
(* SHA-256 is taken collision-free: a digest is the record of what was     *)
(* hashed, so two digests are equal exactly when their inputs are.         *)
(***************************************************************************)
PyNone == [t |-> "none", v |-> ""]
PyStr(s) == [t |-> "str", v |-> s]
\* a float is held as its repr, which Python guarantees to round-trip
PyFloat(r) == [t |-> "float", v |-> r]

FileContents == {"bytes-A", "bytes-B"}
FileMtimes == {"1700000000.0", "1700000360.5"}
WhisperModels == {"whisper-1", "whisper-2"}
Languages == {PyNone, PyStr("en"), PyStr("null")}
Temperatures == {PyFloat("0.0"), PyFloat("0.2")}
AiModels == {"gpt-5-mini", "gpt-4o"}
SpeakerContexts == {PyNone, PyStr("1-on-1 with Tim")}

\* json.dumps of one value: null, a quoted string, or the float's repr
JsonDumpsValue(x) ==
    CASE x.t = "none" -> <<"null">>
      [] x.t = "str" -> <<"\"", x.v, "\"">>
      [] OTHER -> <<x.v>>

\* compute_file_hash: the hex digest of the bytes, "" when the file cannot be read
ComputeFileHash(file) ==
    IF file.readable THEN [sha256 |-> file.bytes] ELSE [sha256 |-> ""]

\* os.path.getmtime with `except Exception: mtime = 0`, formatted by the f-string
MtimeStr(file) == IF file.readable THEN file.mtime ELSE "0"

\* the mutation of relevant_params for stage1: temperature is left out of the key
RelevantParamsNoTemperature(stage, kw) ==
    IF stage = "stage1"
    THEN <<<<"language", JsonDumpsValue(kw.language)>>,
           <<"model", JsonDumpsValue(PyStr(kw.whisper_model))>>>>
    ELSE IF stage = "stage2"
    THEN <<<<"ai_model", JsonDumpsValue(PyStr(kw.ai_model))>>,
           <<"speaker_context", JsonDumpsValue(kw.speaker_context)>>>>
    ELSE <<>>

\* json.dumps(relevant_params, sort_keys=True): the entries in key order
RelevantParams(stage, kw) ==
    IF stage = "stage1"
    THEN <<<<"language", JsonDumpsValue(kw.language)>>,
           <<"model", JsonDumpsValue(PyStr(kw.whisper_model))>>,
           <<"temperature", JsonDumpsValue(kw.temperature)>>>>
    ELSE IF stage = "stage2"
    THEN <<<<"ai_model", JsonDumpsValue(PyStr(kw.ai_model))>>,
           <<"speaker_context", JsonDumpsValue(kw.speaker_context)>>>>
    ELSE <<>>

\* f"{stage}:{file_hash}:{mtime}:{param_str}", then sha256(...).hexdigest()[:16];
\* the first three fields hold no ':' so the four fields are recovered from the string
GetCacheKey(file, stage, kw) ==
    [sha256_16 |-> <<stage, ComputeFileHash(file), MtimeStr(file),
                     RelevantParams(stage, kw)>>]

AudioFiles ==
    {[readable |-> TRUE, bytes |-> b, mtime |-> m] : b \in FileContents, m \in FileMtimes}
        \cup {[readable |-> FALSE, bytes |-> "", mtime |-> ""]}

DefaultKwargs ==
    [whisper_model |-> "whisper-1", language |-> PyNone, temperature |-> PyFloat("0.0"),
     ai_model |-> "gpt-5-mini", speaker_context |-> PyNone]

Stage1Kwargs ==
    {[DefaultKwargs EXCEPT !.whisper_model = m, !.language = l, !.temperature = t] :
        m \in WhisperModels, l \in Languages, t \in Temperatures}
Stage2Kwargs ==
    {[DefaultKwargs EXCEPT !.ai_model = m, !.speaker_context = c] :
        m \in AiModels, c \in SpeakerContexts}

KeyCalls ==
    {[file |-> f, stage |-> "stage1", kw |-> k] : f \in AudioFiles, k \in Stage1Kwargs}
        \cup {[file |-> f, stage |-> "stage2", kw |-> k] : f \in AudioFiles, k \in Stage2Kwargs}

NoKey == [sha256_16 |-> <<>>]

\* two calls of get_cache_key for the same stage
KeyInit ==
    /\ key_call \in {c \in KeyCalls \X KeyCalls : c[1].stage = c[2].stage}
    /\ key_result = <<NoKey, NoKey>>
    /\ key_pc = "call"

GetCacheKeyCalls ==
    /\ key_pc = "call"
    /\ key_result' = <<GetCacheKey(key_call[1].file, key_call[1].stage, key_call[1].kw),
                       GetCacheKey(key_call[2].file, key_call[2].stage, key_call[2].kw)>>
    /\ key_pc' = "return"
    /\ UNCHANGED key_call
    /\ KeyFrame

\* the five inputs of a stage1 key on which two calls differ
Stage1Differences(a, b) ==
    {d \in {"bytes", "mtime", "model", "language", "temperature"} :
        CASE d = "bytes" -> a.file.bytes # b.file.bytes
          [] d = "mtime" -> a.file.mtime # b.file.mtime
          [] d = "model" -> a.kw.whisper_model # b.kw.whisper_model
          [] d = "language" -> a.kw.language # b.kw.language
          [] OTHER -> a.kw.temperature # b.kw.temperature}

BothStage1Readable ==
    /\ key_pc = "return"
    /\ key_call[1].stage = "stage1" /\ key_call[2].stage = "stage1"
    /\ key_call[1].file.readable /\ key_call[2].file.readable

\* C7: two stage1 calls of get_cache_key with the same file bytes, modification time,
\* model, language and temperature return the same key, and two calls that differ in
\* exactly one of the five return different keys.
C7_CacheKeyDeterminism ==
    BothStage1Readable =>
        LET diff == Stage1Differences(key_call[1], key_call[2])
        IN  /\ diff = {} => key_result[1] = key_result[2]
            /\ Cardinality(diff) = 1 => key_result[1] # key_result[2]

\* two calls that differ only in the temperature, with their two different keys
C7_Witness ==
    /\ BothStage1Readable
    /\ Stage1Differences(key_call[1], key_call[2]) = {"temperature"}
    /\ key_result[1] # key_result[2]
    /\ key_result[1] # NoKey

(***************************************************************************)
(* Paths.  A path is the sequence of its components; a leading "/" makes   *)
(* it absolute.  The process runs in Cwd.                                  *)
(***************************************************************************)
Cwd == <<"/", "work">>
IsAbs(p) == Len(p) > 0 /\ p[1] = "/"
\* os.path.normpath on paths without "..": the "." components go
NormPath(p) == LET q == SelectSeq(p, LAMBDA c : c # ".") IN IF q = <<>> THEN <<".">> ELSE q
\* os.path.abspath: normpath(join(os.getcwd(), path))
AbsPath(p) == NormPath(IF IsAbs(p) THEN p ELSE Cwd \o p)
\* os.path.join(dir, name) for a relative name
PathJoin(dir, name) == dir \o <<name>>
BaseName(p) == p[Len(p)]
\* Path(p).stem of the file names in use
Stem(p) ==
    CASE BaseName(p) = "meeting.mp3" -> "meeting"
      [] BaseName(p) = "meeting.m4a" -> "meeting"
      [] BaseName(p) = "meeting_speakers.m4a" -> "meeting_speakers"
      [] BaseName(p) = "notes.m4a" -> "notes"
      [] BaseName(p) = "meeting_stage1_transcript.json" -> "meeting_stage1_transcript"
      [] OTHER -> BaseName(p)
\* f"{base_name}_stage1_transcript.json" and f"{base_name}_stage2_speaker_mappings.json"
Stage1FileName(base_name) ==
    CASE base_name = "meeting" -> "meeting_stage1_transcript.json"
      [] OTHER -> "other_stage1_transcript.json"
Stage2FileName(base_name) ==
    CASE base_name = "meeting" -> "meeting_stage2_speaker_mappings.json"
      [] OTHER -> "other_stage2_speaker_mappings.json"

\* the audio file /work/meeting.mp3 as a caller may name it
AudioPathForms == {<<"meeting.mp3">>, <<".", "meeting.mp3">>, <<"/", "work", "meeting.mp3">>}
OutputDir == <<"/", "work", "out">>
\* the Stage-1 artifact /work/out/meeting_stage1_transcript.json as a caller may name it
IntermediatePathForms ==
    {<<"out", "meeting_stage1_transcript.json">>,
     <<"/", "work", "out", "meeting_stage1_transcript.json">>}

\* get_stage1_cache_path, get_stage2_cache_path
GetStage1CachePath(audio_path, output_dir) ==
    PathJoin(output_dir, Stage1FileName(Stem(audio_path)))
GetStage2CachePath(audio_path, output_dir) ==
    PathJoin(output_dir, Stage2FileName(Stem(audio_path)))

(***************************************************************************)
(* Stage 1 and its cache (pipeline_stages.stage1_transcribe_and_diarize,   *)
(* cache_manager.is_stage1_cached).                                        *)
(***************************************************************************)
\* what the JSON of a stored artifact is like: as the stage wrote it, or damaged
\* (cut short, not an object, a key of the wrong type, a key missing)
Stage1Shapes == {"ok", "unparseable", "not_object", "audio_file_not_str",
                 "metadata_not_object", "no_segments"}
Stage2Shapes == {"ok", "unparseable", "not_object", "source_file_not_str"}
NoFile == [exists |-> FALSE, shape |-> "ok", audio_file |-> <<>>,
           metadata_audio_file |-> <<>>, metadata_model |-> ""]
NoArgs == [audio_path |-> <<>>, whisper_model |-> "", language |-> PyNone,
           temperature |-> PyFloat("0.0"), use_cache |-> TRUE]
\* history of the stored artifact: the call and the audio file state that wrote it, and
\* the model recorded by the artifact for the same audio path that this write replaced
NotMade == [made |-> FALSE, args |-> NoArgs, bytes |-> "", mtime |-> "", replaced_model |-> ""]

Stage1Languages == {PyNone, PyStr("en")}
Stage1Args ==
    [audio_path : AudioPathForms, whisper_model : WhisperModels,
     language : Stage1Languages, temperature : Temperatures, use_cache : BOOLEAN]

Stage1Idle ==
    /\ audio_file = [bytes |-> "bytes-A", mtime |-> "1700000000.0"]
    /\ stage1_file = NoFile
    /\ s1_made = NotMade
    /\ s1_args = NoArgs
    /\ s1_pc = "idle"

\* the file at a path: the only file under the output directory is the Stage-1 artifact
Stage1FileAt(path) ==
    IF AbsPath(path) = AbsPath(GetStage1CachePath(<<"meeting.mp3">>, OutputDir))
    THEN stage1_file
    ELSE NoFile

\* the mutation of the handlers of the lookups: only a JSON decoding error is caught
ExceptJsonDecodeError(error) == error = "JSONDecodeError"

\* `except Exception: pass` of is_stage1_cached and is_stage2_cached
ExceptException(error) == TRUE

\* what the try block of is_stage1_cached raises on the stored file, "none" if nothing:
\* json.load on a cut file, .get on a list, normpath on a number, and .get on a
\* metadata that is no dict, which is reached once the paths have compared equal
Stage1ReadError(cache_data, audio_path) ==
    CASE cache_data.shape = "unparseable" -> "JSONDecodeError"
      [] cache_data.shape = "not_object" -> "AttributeError"
      [] cache_data.shape = "audio_file_not_str" -> "TypeError"
      [] /\ cache_data.shape = "metadata_not_object"
         /\ NormPath(cache_data.audio_file) = NormPath(AbsPath(audio_path))
           -> "AttributeError"
      [] OTHER -> "none"

\* is_stage1_cached lets an exception out
IsStage1CachedRaises(audio_path, output_dir, kw) ==
    LET cache_data == Stage1FileAt(GetStage1CachePath(audio_path, output_dir))
    IN  /\ cache_data.exists
        /\ Stage1ReadError(cache_data, audio_path) # "none"
        /\ ~ExceptException(Stage1ReadError(cache_data, audio_path))

\* the mutation of is_stage1_cached: the recorded model is not compared
IsStage1CachedAnyModel(audio_path, output_dir, kw) ==
    LET cache_path == GetStage1CachePath(audio_path, output_dir)
        cache_data == Stage1FileAt(cache_path)
    IN  /\ cache_data.exists
        /\ Stage1ReadError(cache_data, audio_path) = "none"
        /\ NormPath(cache_data.audio_file) = NormPath(AbsPath(audio_path))

\* is_stage1_cached(audio_path, output_dir, **kwargs)[0]
IsStage1Cached(audio_path, output_dir, kw) ==
    LET cache_path == GetStage1CachePath(audio_path, output_dir)
        cache_data == Stage1FileAt(cache_path)
    IN  /\ cache_data.exists
        /\ Stage1ReadError(cache_data, audio_path) = "none"
        /\ NormPath(cache_data.audio_file) = NormPath(AbsPath(audio_path))
        /\ cache_data.metadata_model = kw.whisper_model

Stage1Init ==
    /\ audio_file \in [bytes : FileContents, mtime : FileMtimes]
    /\ stage1_file = NoFile
    /\ s1_made = NotMade
    /\ s1_args = NoArgs
    /\ s1_pc = "idle"

Stage1NotRunning == s1_pc \in {"idle", "returned_cached", "returned_saved", "raised"}

\* a call stage1_transcribe_and_diarize(audio_path, output_dir, ...); the stages of a
\* file run one after the other
Stage1Enter(args) ==
    /\ Stage1NotRunning
    /\ s2_pc \in {"idle", "returned_cached", "returned_saved", "raised"}
    /\ s1_args' = args
    /\ s1_pc' = "check"
    /\ UNCHANGED <<audio_file, stage1_file, s1_made>>
    /\ Stage1Frame

\* `if use_cache: ... if is_cached and cache_path: return cache_path`
Stage1CheckCache ==
    /\ s1_pc = "check"
    /\ s1_pc' = IF ~s1_args.use_cache
                THEN "transcribe"
                ELSE IF IsStage1CachedRaises(s1_args.audio_path, OutputDir, s1_args)
                THEN "raised"
                ELSE IF IsStage1Cached(s1_args.audio_path, OutputDir, s1_args)
                THEN "returned_cached"
                ELSE "transcribe"
    /\ UNCHANGED <<audio_file, stage1_file, s1_made, s1_args>>
    /\ Stage1Frame

\* run_transcription_pipeline returned: the artifact is written and its path returned
Stage1Save ==
    /\ s1_pc = "transcribe"
    /\ stage1_file' = [exists |-> TRUE,
                       shape |-> "ok",
                       audio_file |-> s1_args.audio_path,
                       metadata_audio_file |-> AbsPath(s1_args.audio_path),
                       metadata_model |-> s1_args.whisper_model]
    /\ s1_made' = [made |-> TRUE,
                   args |-> [s1_args EXCEPT !.use_cache = TRUE],
                   bytes |-> audio_file.bytes,
                   mtime |-> audio_file.mtime,
                   replaced_model |->
                       IF /\ stage1_file.exists
                          /\ NormPath(stage1_file.audio_file) = NormPath(AbsPath(s1_args.audio_path))
                       THEN stage1_file.metadata_model
                       ELSE ""]
    /\ s1_pc' = "returned_saved"
    /\ UNCHANGED <<audio_file, s1_args>>
    /\ Stage1Frame

\* run_transcription_pipeline raised: the exception leaves the function, nothing is written
Stage1Raise ==
    /\ s1_pc = "transcribe"
    /\ s1_pc' = "raised"
    /\ UNCHANGED <<audio_file, stage1_file, s1_made, s1_args>>
    /\ Stage1Frame

\* the user replaces the audio file's content, keeping its modification time
WriteAudio(bytes) ==
    /\ Stage1NotRunning
    /\ bytes # audio_file.bytes
    /\ audio_file' = [audio_file EXCEPT !.bytes = bytes]
    /\ UNCHANGED <<stage1_file, s1_made, s1_args, s1_pc>>
    /\ Stage1Frame

\* the user touches the audio file
TouchAudio(mtime) ==
    /\ Stage1NotRunning
    /\ mtime # audio_file.mtime
    /\ audio_file' = [audio_file EXCEPT !.mtime = mtime]
    /\ UNCHANGED <<stage1_file, s1_made, s1_args, s1_pc>>
    /\ Stage1Frame

Stage1Next ==
    \/ \E args \in Stage1Args : Stage1Enter(args)
    \/ Stage1CheckCache
    \/ Stage1Save
    \/ Stage1Raise
    \/ \E bytes \in FileContents : WriteAudio(bytes)
    \/ \E mtime \in FileMtimes : TouchAudio(mtime)

\* the call being checked has the arguments of the run that wrote the stored artifact
SameStage1Call ==
    /\ s1_made.made
    /\ s1_args.audio_path = s1_made.args.audio_path
    /\ s1_args.whisper_model = s1_made.args.whisper_model
    /\ s1_args.language = s1_made.args.language
    /\ s1_args.temperature = s1_made.args.temperature

\* C3: once Stage 1 has completed for an audio file, a later call with the same audio
\* path argument (relative or absolute), model, language and temperature and with
\* use_cache returns the stored artifact: no transcription is started.
C3_Stage1RerunIsCached ==
    [][(s1_pc = "check" /\ s1_args.use_cache /\ stage1_file.exists /\ SameStage1Call)
          => s1_pc' = "returned_cached"]_vars

\* the components of the Stage-1 fingerprint on which the call being checked differs
\* from the run that wrote the stored artifact
Stage1FingerprintChanges ==
    {d \in {"bytes", "mtime", "model", "language", "temperature"} :
        CASE d = "bytes" -> audio_file.bytes # s1_made.bytes
          [] d = "mtime" -> audio_file.mtime # s1_made.mtime
          [] d = "model" -> s1_args.whisper_model # s1_made.args.whisper_model
          [] d = "language" -> s1_args.language # s1_made.args.language
          [] OTHER -> s1_args.temperature # s1_made.args.temperature}

\* C4: with a stored artifact for the file, a call for which exactly one of the file's
\* content, the file's modification time, the language or the temperature has changed
\* is a cache miss: transcription and diarization are run again.
C4_FingerprintChangeIsMiss ==
    [][(/\ s1_pc = "check" /\ s1_args.use_cache /\ stage1_file.exists /\ s1_made.made
        /\ Cardinality(Stage1FingerprintChanges) = 1
        /\ Stage1FingerprintChanges \subseteq {"bytes", "mtime", "language", "temperature"})
          => s1_pc' = "transcribe"]_vars

\* C5: with a stored artifact recording model M1, a call with another model M2 misses
\* the cache and runs transcription again, and the artifact written when that run
\* completes records M2.
C5_ModelChangeRecomputes ==
    /\ [][(s1_pc = "check" /\ stage1_file.exists
            /\ stage1_file.metadata_model # s1_args.whisper_model)
              => s1_pc' = "transcribe"]_vars
    /\ [](s1_pc = "returned_saved" =>
            /\ stage1_file.exists
            /\ stage1_file.metadata_model = s1_args.whisper_model)

\* a run with whisper-2 and use_cache has just replaced an artifact that recorded
\* whisper-1 for the same audio path
C5_Witness ==
    /\ s1_pc = "returned_saved"
    /\ s1_args.whisper_model = "whisper-2"
    /\ s1_args.use_cache
    /\ stage1_file.metadata_model = "whisper-2"
    /\ s1_made.replaced_model = "whisper-1"

(***************************************************************************)
(* Stage 2 and its cache (pipeline_stages.stage2_identify_speakers,        *)
(* cache_manager.is_stage2_cached).                                        *)
(***************************************************************************)
NoMappingsFile == [exists |-> FALSE, shape |-> "ok", source_file |-> <<>>,
                   audio_file |-> <<>>, ai_model |-> "", speaker_context |-> PyNone]
NoStage2Args == [intermediate_file |-> <<>>, ai_model |-> "", speaker_context |-> PyNone,
                 use_cache |-> TRUE]
Stage2NotMade == [made |-> FALSE, args |-> NoStage2Args]

\* the speaker_context argument: absent, empty, or given
SpeakerContextArgs == {PyNone, PyStr(""), PyStr("1-on-1 with Tim")}
Stage2Args ==
    [intermediate_file : IntermediatePathForms, ai_model : AiModels,
     speaker_context : SpeakerContextArgs, use_cache : BOOLEAN]

\* extract_full_context: never empty; "Meeting or conversation" when neither the file
\* name nor the file's metadata yields anything
ExtractedContexts == {PyStr("recorded on November 04, 2026"), PyStr("Meeting or conversation")}

\* Python truthiness of an optional string
Truthy(x) == x.t = "str" /\ x.v # ""

Stage2Idle ==
    /\ stage2_file = NoMappingsFile
    /\ s2_made = Stage2NotMade
    /\ s2_args = NoStage2Args
    /\ s2_pc = "idle"

\* the Stage-2 mappings file, looked up by path
Stage2FileAt(path) ==
    IF AbsPath(path) = AbsPath(GetStage2CachePath(<<"meeting.mp3">>, OutputDir))
    THEN stage2_file
    ELSE NoMappingsFile

\* what the try block of is_stage2_cached raises on the stored file, "none" if nothing
Stage2ReadError(cache_data) ==
    CASE cache_data.shape = "unparseable" -> "JSONDecodeError"
      [] cache_data.shape = "not_object" -> "AttributeError"
      [] cache_data.shape = "source_file_not_str" -> "TypeError"
      [] OTHER -> "none"

\* is_stage2_cached lets an exception out
IsStage2CachedRaises(stage1_path, audio_path, output_dir, kw) ==
    LET cache_data == Stage2FileAt(GetStage2CachePath(audio_path, output_dir))
    IN  /\ cache_data.exists
        /\ Stage2ReadError(cache_data) # "none"
        /\ ~ExceptException(Stage2ReadError(cache_data))

\* is_stage2_cached(stage1_file, audio_path, output_dir, **kwargs)[0]
IsStage2Cached(stage1_path, audio_path, output_dir, kw) ==
    LET cache_path == GetStage2CachePath(audio_path, output_dir)
        cache_data == Stage2FileAt(cache_path)
    IN  /\ cache_data.exists
        /\ Stage2ReadError(cache_data) = "none"
        /\ NormPath(cache_data.source_file) = NormPath(AbsPath(stage1_path))
        /\ cache_data.ai_model = kw.ai_model
        /\ cache_data.speaker_context = kw.speaker_context

\* a Stage-1 artifact is in place; no Stage 2 has run
Stage2Init ==
    /\ audio_file \in [bytes : {"bytes-A"}, mtime : {"1700000000.0"}]
    /\ \E p \in AudioPathForms, m \in WhisperModels :
          stage1_file = [exists |-> TRUE, shape |-> "ok", audio_file |-> p,
                         metadata_audio_file |-> AbsPath(p), metadata_model |-> m]
    /\ s1_made = NotMade
    /\ s1_args = NoArgs
    /\ s1_pc = "idle"
    /\ stage2_file = NoMappingsFile
    /\ s2_made = Stage2NotMade
    /\ s2_args = NoStage2Args
    /\ s2_pc = "idle"

Stage2NotRunning == s2_pc \in {"idle", "returned_cached", "returned_saved", "raised"}

\* IntermediateTranscript.load(path) and Path(intermediate.audio_file).stem go through
Stage1Loadable(path) ==
    /\ Stage1FileAt(path).exists
    /\ Stage1FileAt(path).shape \in {"ok", "metadata_not_object"}

\* a call stage2_identify_speakers(intermediate_file, output_dir, ...): the Stage-1
\* artifact is loaded; the stages of a file run one after the other
Stage2Enter(args) ==
    /\ Stage2NotRunning
    /\ Stage1NotRunning
    /\ Stage1Loadable(args.intermediate_file)
    /\ s2_args' = args
    /\ s2_pc' = "check"
    /\ UNCHANGED <<stage2_file, s2_made>>
    /\ Stage2Frame

\* `if use_cache: ... if is_cached and cache_path: return cache_path`
Stage2CheckCache ==
    /\ s2_pc = "check"
    /\ LET intermediate == Stage1FileAt(s2_args.intermediate_file)
       IN  s2_pc' = IF ~s2_args.use_cache
                    THEN "identify"
                    ELSE IF IsStage2CachedRaises(s2_args.intermediate_file,
                                                 intermediate.audio_file, OutputDir, s2_args)
                    THEN "raised"
                    ELSE IF IsStage2Cached(s2_args.intermediate_file,
                                           intermediate.audio_file, OutputDir, s2_args)
                    THEN "returned_cached"
                    ELSE "identify"
    /\ UNCHANGED <<stage2_file, s2_made, s2_args>>
    /\ Stage2Frame

\* identify_speakers returned: the mappings file is written with the speaker context
\* in use, which is the extracted one when none was passed
Stage2Save(extracted) ==
    /\ s2_pc = "identify"
    /\ LET intermediate == Stage1FileAt(s2_args.intermediate_file)
           speaker_context == IF ~Truthy(s2_args.speaker_context)
                              THEN extracted
                              ELSE s2_args.speaker_context
       IN  stage2_file' = [exists |-> TRUE,
                           shape |-> "ok",
                           source_file |-> s2_args.intermediate_file,
                           audio_file |-> intermediate.audio_file,
                           ai_model |-> s2_args.ai_model,
                           speaker_context |-> speaker_context]
    /\ s2_made' = [made |-> TRUE, args |-> [s2_args EXCEPT !.use_cache = TRUE]]
    /\ s2_pc' = "returned_saved"
    /\ UNCHANGED s2_args
    /\ Stage2Frame

\* identify_speakers raised: the exception leaves the function, nothing is written
Stage2Raise ==
    /\ s2_pc = "identify"
    /\ s2_pc' = "raised"
    /\ UNCHANGED <<stage2_file, s2_made, s2_args>>
    /\ Stage2Frame

Stage2Next ==
    \/ \E args \in Stage2Args : Stage2Enter(args)
    \/ Stage2CheckCache
    \/ \E extracted \in ExtractedContexts : Stage2Save(extracted)
    \/ Stage2Raise

\* the call being checked has the arguments of the run that wrote the mappings file
SameStage2Call ==
    /\ s2_made.made
    /\ s2_args.intermediate_file = s2_made.args.intermediate_file
    /\ s2_args.ai_model = s2_made.args.ai_model
    /\ s2_args.speaker_context = s2_made.args.speaker_context

\* C6: once Stage 2 has completed for a Stage-1 artifact, a later call with the same
\* artifact, AI model and speaker_context argument (none supplied included) and with
\* use_cache returns the stored mappings file: the AI service is not invoked.
C6_Stage2RerunIsCached ==
    [][(s2_pc = "check" /\ s2_args.use_cache /\ stage2_file.exists /\ SameStage2Call)
          => s2_pc' = "returned_cached"]_vars

(***************************************************************************)
(* Damaged artifacts.  Between two runs a stored artifact may be cut       *)
(* short, replaced, or lose a key (a crashed writer, an edit by hand); the *)
(* stages of one file then run again, Stage 1 before Stage 2.              *)
(***************************************************************************)
\* the calls considered: with use_cache, the default language and temperature, a
\* relative or an absolute path, any model; a speaker context given or not
Stage1PlainArgs ==
    {a \in Stage1Args : /\ a.use_cache
                        /\ a.language = PyNone
                        /\ a.temperature = PyFloat("0.0")
                        /\ a.audio_path # <<".", "meeting.mp3">>}
Stage2PlainArgs ==
    {a \in Stage2Args : /\ a.use_cache
                        /\ a.speaker_context # PyStr("")
                        /\ IsAbs(a.intermediate_file)}

\* the stored Stage-1 artifact is damaged while no stage runs
DamageStage1File(shape) ==
    /\ Stage1NotRunning
    /\ Stage2NotRunning
    /\ stage1_file.exists
    /\ stage1_file.shape = "ok"
    /\ shape # "ok"
    /\ stage1_file' = [stage1_file EXCEPT !.shape = shape]
    /\ UNCHANGED <<audio_file, s1_made, s1_args, s1_pc>>
    /\ Stage1Frame

\* the stored Stage-2 mappings file is damaged while no stage runs
DamageStage2File(shape) ==
    /\ Stage1NotRunning
    /\ Stage2NotRunning
    /\ stage2_file.exists
    /\ stage2_file.shape = "ok"
    /\ shape # "ok"
    /\ stage2_file' = [stage2_file EXCEPT !.shape = shape]
    /\ UNCHANGED <<s2_made, s2_args, s2_pc>>
    /\ Stage2Frame

\* stage2_identify_speakers is called and IntermediateTranscript.load, or the stem of
\* the loaded audio_file, raises: the exception leaves the function
Stage2LoadRaises(args) ==
    /\ Stage2NotRunning
    /\ Stage1NotRunning
    /\ ~Stage1Loadable(args.intermediate_file)
    /\ s2_args' = args
    /\ s2_pc' = "raised"
    /\ UNCHANGED <<stage2_file, s2_made>>
    /\ Stage2Frame

CacheInit == Stage1Idle /\ Stage2Idle

CacheNext ==
    \/ \E args \in Stage1PlainArgs : Stage1Enter(args)
    \/ Stage1CheckCache
    \/ Stage1Save
    \/ Stage1Raise
    \/ \E shape \in Stage1Shapes : DamageStage1File(shape)
    \/ \E args \in Stage2PlainArgs : Stage2Enter(args)
    \/ \E args \in Stage2PlainArgs : Stage2LoadRaises(args)
    \/ Stage2CheckCache
    \/ \E extracted \in ExtractedContexts : Stage2Save(extracted)
    \/ Stage2Raise
    \/ \E shape \in Stage2Shapes : DamageStage2File(shape)

\* the stored Stage-1 artifact cannot be read as JSON, holds a value of the wrong type
\* where the lookup reads one, or records another path or model than the call's
Stage1Unusable ==
    \/ stage1_file.shape \in {"unparseable", "not_object", "audio_file_not_str",
                              "metadata_not_object"}
    \/ NormPath(stage1_file.audio_file) # NormPath(AbsPath(s1_args.audio_path))
    \/ stage1_file.metadata_model # s1_args.whisper_model

\* the same for the stored Stage-2 mappings file
Stage2Unusable ==
    \/ stage2_file.shape \in {"unparseable", "not_object", "source_file_not_str"}
    \/ NormPath(stage2_file.source_file) # NormPath(AbsPath(s2_args.intermediate_file))
    \/ stage2_file.ai_model # s2_args.ai_model
    \/ stage2_file.speaker_context # s2_args.speaker_context

\* C15: whatever the stored artifact holds, the cache lookup of a stage does not
\* raise; on an artifact that is unparseable, ill-typed where it is read, or that
\* records another path or other parameters, it reports a miss, so that the stage
\* computes again, and the artifact that the stage then writes replaces the stored
\* one with a well-formed one for the call's parameters.
C15_CorruptArtifactIsMiss ==
    [][/\ s1_pc = "check" => s1_pc' # "raised"
       /\ (s1_pc = "check" /\ s1_args.use_cache /\ stage1_file.exists /\ Stage1Unusable)
             => s1_pc' = "transcribe"
       /\ (s1_pc = "transcribe" /\ s1_pc' = "returned_saved")
             => /\ stage1_file'.exists
                /\ stage1_file'.shape = "ok"
                /\ stage1_file'.metadata_model = s1_args.whisper_model
       /\ s2_pc = "check" => s2_pc' # "raised"
       /\ (s2_pc = "check" /\ s2_args.use_cache /\ stage2_file.exists /\ Stage2Unusable)
             => s2_pc' = "identify"
       /\ (s2_pc = "identify" /\ s2_pc' = "returned_saved")
             => /\ stage2_file'.exists
                /\ stage2_file'.shape = "ok"
                /\ stage2_file'.ai_model = s2_args.ai_model]_vars

\* Stage 2 was asked for the cache, found a mappings file that is a JSON list, and has
\* gone on to identify; the Stage-1 artifact it runs on had itself been rewritten
\* after a lookup
C15_Witness ==
    /\ s2_pc = "identify"
    /\ s2_args.use_cache
    /\ stage2_file.exists
    /\ stage2_file.shape = "not_object"
    /\ s1_pc = "returned_saved"
    /\ s1_args.use_cache

\* C16: a stored Stage-1 artifact that is valid JSON, records the call's path and
\* model, but has no "segments" key is a cache miss for Stage 1.
C16_MissingKeyIsMiss ==
    [][(/\ s1_pc = "check" /\ s1_args.use_cache /\ stage1_file.exists
        /\ stage1_file.shape = "no_segments"
        /\ NormPath(stage1_file.audio_file) = NormPath(AbsPath(s1_args.audio_path))
        /\ stage1_file.metadata_model = s1_args.whisper_model)
          => s1_pc' = "transcribe"]_vars

(***************************************************************************)
(* Batch mode (cli._batch_transcribe): one process_file task per matched   *)
(* file on a ThreadPoolExecutor, the main thread recording each future as  *)
(* as_completed hands it over.                                             *)
(***************************************************************************)
MaxFiles == 3
MaxWorkers == 2
MaxCores == 33

Files == 1 .. MaxFiles
\* --parallel is absent (None) or any integer, zero and negative ones included
NoParallel == [given |-> FALSE, n |-> 0]
ParallelOptions == {NoParallel} \cup {[given |-> TRUE, n |-> k] : k \in -1 .. MaxWorkers}
\* the machines considered: up to three cores, and the three largest counts up to
\* MaxCores, which lie around the 32 cores where the cap of 16 workers sets in
CpuCounts == {c \in 1 .. MaxCores : c <= 3 \/ c >= MaxCores - 2}
Matched == 1 .. n_files

\* where a task stands: in the executor's queue, at a step of _process_single_file,
\* or returned from process_file with (name, success, error, metrics)
TaskSteps == {"validate", "pipeline", "identify", "export"}
TaskReturned == {"returned_ok", "returned_failed"}

BatchIdle ==
    /\ parallel = NoParallel
    /\ cpu_count = 1
    /\ n_files = 0
    /\ identify_speakers = FALSE
    /\ max_workers = 0
    /\ task = [f \in Files |-> "none"]
    /\ warned = {}
    /\ recorded = {}
    /\ success_count = 0
    /\ failed_files = <<>>
    /\ all_metrics = <<>>
    /\ completed = 0
    /\ batch_pc = "idle"

\* the transcribe command is entered with a directory: the option, the machine and the
\* files that the glob will match
BatchInit ==
    /\ parallel \in ParallelOptions
    /\ cpu_count \in CpuCounts
    /\ n_files \in 0 .. MaxFiles
    /\ identify_speakers \in BOOLEAN
    /\ max_workers = 0
    /\ task = [f \in Files |-> "none"]
    /\ warned = {}
    /\ recorded = {}
    /\ success_count = 0
    /\ failed_files = <<>>
    /\ all_metrics = <<>>
    /\ completed = 0
    /\ batch_pc = "cli"

\* _get_optimal_parallel_workers: max(1, min((cpu_count + 1) // 2, 16))
GetOptimalParallelWorkers(cores) == Max(1, Min((cores + 1) \div 2, 16))

\* `if parallel is None: parallel = _get_optimal_parallel_workers()`, then
\* _batch_transcribe(..., max_workers=parallel) is entered
BatchResolveWorkers ==
    /\ batch_pc = "cli"
    /\ max_workers' = IF parallel.given THEN parallel.n
                                        ELSE GetOptimalParallelWorkers(cpu_count)
    /\ batch_pc' = "start"
    /\ UNCHANGED <<parallel, cpu_count, n_files, identify_speakers, task, warned,
                   recorded, success_count, failed_files, all_metrics, completed>>
    /\ BatchFrame

\* `if not audio_files: ... return`
BatchNoFiles ==
    /\ batch_pc = "start"
    /\ n_files = 0
    /\ batch_pc' = "done"
    /\ UNCHANGED <<parallel, cpu_count, n_files, identify_speakers, max_workers, task,
                   warned, recorded, success_count, failed_files, all_metrics, completed>>
    /\ BatchFrame

\* the mutation of the clamp: one worker per file, whatever was requested
ClampWorkersToFiles(workers, n) == Max(1, n)

\* max(1, min(max_workers, len(audio_files)))
ClampWorkers(workers, n) == Max(1, Min(workers, n))

\* max_workers = max(1, min(max_workers, len(audio_files))), then every file is
\* submitted to the executor
BatchSubmitAll ==
    /\ batch_pc = "start"
    /\ n_files > 0
    /\ max_workers' = ClampWorkers(max_workers, n_files)
    /\ task' = [f \in Files |-> IF f \in Matched THEN "queued" ELSE "none"]
    /\ batch_pc' = "loop"
    /\ UNCHANGED <<parallel, cpu_count, n_files, identify_speakers, warned, recorded,
                   success_count, failed_files, all_metrics, completed>>
    /\ BatchFrame

Running == {f \in Matched : task[f] \in TaskSteps}

\* a free worker thread takes the oldest queued task and enters process_file
TaskStart(f) ==
    /\ batch_pc = "loop"
    /\ task[f] = "queued"
    /\ \A g \in Matched : g < f => task[g] # "queued"
    /\ Cardinality(Running) < max_workers
    /\ task' = [task EXCEPT ![f] = "validate"]
    /\ UNCHANGED <<parallel, cpu_count, n_files, identify_speakers, max_workers, warned,
                   recorded, success_count, failed_files, all_metrics, completed,
                   batch_pc>>
    /\ BatchFrame

\* the step after a step of _process_single_file that succeeded
StepAfter(step) ==
    CASE step = "validate" -> "pipeline"
      [] step = "pipeline" -> IF identify_speakers THEN "identify" ELSE "export"
      [] step = "identify" -> "export"
      [] OTHER -> "returned_ok"

\* a step of _process_single_file succeeds; after the export the metrics are returned
\* and process_file returns (name, True, None, metrics)
TaskStepOk(f) ==
    /\ f \in Matched
    /\ task[f] \in TaskSteps
    /\ task' = [task EXCEPT ![f] = StepAfter(task[f])]
    /\ UNCHANGED <<parallel, cpu_count, n_files, identify_speakers, max_workers, warned,
                   recorded, success_count, failed_files, all_metrics, completed,
                   batch_pc>>
    /\ BatchFrame

\* validation, the transcription pipeline or an export raises: the exception leaves
\* _process_single_file and process_file returns (name, False, str(e), None)
TaskStepRaises(f) ==
    /\ f \in Matched
    /\ task[f] \in {"validate", "pipeline", "export"}
    /\ task' = [task EXCEPT ![f] = "returned_failed"]
    /\ UNCHANGED <<parallel, cpu_count, n_files, identify_speakers, max_workers, warned,
                   recorded, success_count, failed_files, all_metrics, completed,
                   batch_pc>>
    /\ BatchFrame

\* the AI identification raises: _process_single_file records a warning and goes on
\* with the generic labels
TaskIdentifyFails(f) ==
    /\ f \in Matched
    /\ task[f] = "identify"
    /\ task' = [task EXCEPT ![f] = "export"]
    /\ warned' = warned \cup {f}
    /\ UNCHANGED <<parallel, cpu_count, n_files, identify_speakers, max_workers,
                   recorded, success_count, failed_files, all_metrics, completed,
                   batch_pc>>
    /\ BatchFrame

\* the mutation of the loop body: a failed file ends the loop (the error is re-raised)
RecordResultAbortsOnFailure(f) ==
    /\ batch_pc = "loop"
    /\ f \in Matched \ recorded
    /\ task[f] \in TaskReturned
    /\ completed' = completed + 1
    /\ recorded' = recorded \cup {f}
    /\ IF task[f] = "returned_ok"
       THEN /\ all_metrics' = Append(all_metrics, f)
            /\ success_count' = success_count + 1
            /\ UNCHANGED <<failed_files, batch_pc>>
       ELSE /\ batch_pc' = "done"
            /\ UNCHANGED <<all_metrics, success_count, failed_files>>
    /\ UNCHANGED <<parallel, cpu_count, n_files, identify_speakers, max_workers, task,
                   warned>>
    /\ BatchFrame

\* the mutation of the loop body: a failed file is printed but not appended
RecordResultDropsFailure(f) ==
    /\ batch_pc = "loop"
    /\ f \in Matched \ recorded
    /\ task[f] \in TaskReturned
    /\ completed' = completed + 1
    /\ recorded' = recorded \cup {f}
    /\ IF task[f] = "returned_ok"
       THEN /\ all_metrics' = Append(all_metrics, f)
            /\ success_count' = success_count + 1
            /\ UNCHANGED failed_files
       ELSE UNCHANGED <<all_metrics, success_count, failed_files>>
    /\ UNCHANGED <<parallel, cpu_count, n_files, identify_speakers, max_workers, task,
                   warned, batch_pc>>
    /\ BatchFrame

\* one iteration of `for future in as_completed(future_to_file)`: a finished future not
\* yet handed over is taken, `completed += 1`, and its result is recorded
RecordResult(f) ==
    /\ batch_pc = "loop"
    /\ f \in Matched \ recorded
    /\ task[f] \in TaskReturned
    /\ completed' = completed + 1
    /\ recorded' = recorded \cup {f}
    /\ IF task[f] = "returned_ok"
       THEN /\ all_metrics' = Append(all_metrics, f)
            /\ success_count' = success_count + 1
            /\ UNCHANGED failed_files
       ELSE /\ failed_files' = Append(failed_files, f)
            /\ UNCHANGED <<all_metrics, success_count>>
    /\ UNCHANGED <<parallel, cpu_count, n_files, identify_speakers, max_workers, task,
                   warned, batch_pc>>
    /\ BatchFrame

\* as_completed is exhausted, the executor is shut down, the summary is printed and
\* _batch_transcribe returns
BatchSummary ==
    /\ batch_pc = "loop"
    /\ recorded = Matched
    /\ batch_pc' = "done"
    /\ UNCHANGED <<parallel, cpu_count, n_files, identify_speakers, max_workers, task,
                   warned, recorded, success_count, failed_files, all_metrics, completed>>
    /\ BatchFrame

BatchNext ==
    \/ BatchResolveWorkers
    \/ BatchNoFiles
    \/ BatchSubmitAll
    \/ \E f \in Files : TaskStart(f)
    \/ \E f \in Files : TaskStepOk(f)
    \/ \E f \in Files : TaskStepRaises(f)
    \/ \E f \in Files : TaskIdentifyFails(f)
    \/ \E f \in Files : RecordResult(f)
    \/ BatchSummary

SeqElems(s) == {s[i] : i \in 1 .. Len(s)}
Occurrences(s, x) == Cardinality({i \in 1 .. Len(s) : s[i] = x})

\* C8: when _batch_transcribe returns, every matched file has been processed to the
\* end of process_file, whatever failed in the others, and every file whose own
\* processing succeeded is reported as a success.
C8_BatchIsolation ==
    batch_pc = "done" =>
        \A f \in Matched :
            /\ task[f] \in TaskReturned
            /\ task[f] = "returned_ok" => f \in SeqElems(all_metrics)

\* the batch has returned with a failed file and a file that succeeded after it failed
C8_Witness ==
    /\ batch_pc = "done"
    /\ n_files = MaxFiles
    /\ \E f, g \in Matched :
          /\ f < g
          /\ task[f] = "returned_failed"
          /\ task[g] = "returned_ok"
          /\ failed_files[1] = f
          /\ g \in SeqElems(all_metrics)

CeilHalf(cores) == (cores \div 2) + (cores % 2)
\* the worker count asked for: the option, or clamp(ceil(cpuCores / 2), 1, 16)
RequestedWorkers ==
    IF parallel.given THEN parallel.n ELSE Max(1, Min(CeilHalf(cpu_count), 16))

MaxSpeakers == 3
MaxMentioned == 3

NameTable == <<"Alice", "Bob", "Carol", "Dave", "Erin", "Frank">>
MentionedNames == {NameTable[i] : i \in 1 .. MaxMentioned}
MeetingTypes == {"1-on-1", "interview", "review", "none"}
\* filename is None, or extract_context_from_filename finds no names in it, or some
Filenames == {"none", "no_names", "names"}
SelfIntros == {<<>>, <<Entry(LabelTable[1], "alice")>>}

QaIdle ==
    /\ speaker_count = 0
    /\ mentioned_names = {}
    /\ self_intros = <<>>
    /\ qa_meeting_type = "none"
    /\ filename = "none"
    /\ score = 0
    /\ qa_issues = <<>>
    /\ qa_pc = "idle"

\* _calculate_quality_score is entered: score = 1.0, issues = []
QaInit ==
    /\ speaker_count \in 0 .. MaxSpeakers
    /\ mentioned_names \in SUBSET MentionedNames
    /\ self_intros \in SelfIntros
    /\ qa_meeting_type \in MeetingTypes
    /\ filename \in Filenames
    /\ score = 10
    /\ qa_issues = <<>>
    /\ qa_pc = "one_on_one"

\* `if meeting_type == "1-on-1"`: penalty for a count other than 2, bonus for 2
QaCheckOneOnOne ==
    /\ qa_pc = "one_on_one"
    /\ IF qa_meeting_type = "1-on-1"
       THEN IF speaker_count # 2
            THEN /\ score' = score - 3
                 /\ qa_issues' = Append(qa_issues, "one_on_one_count")
            ELSE /\ score' = score + 1
                 /\ UNCHANGED qa_issues
       ELSE UNCHANGED <<score, qa_issues>>
    /\ qa_pc' = "mentioned"
    /\ UNCHANGED <<speaker_count, mentioned_names, self_intros, qa_meeting_type, filename>>
    /\ QaFrame

\* `if len(mentioned_names) > speaker_count * 2`
QaCheckMentioned ==
    /\ qa_pc = "mentioned"
    /\ IF Cardinality(mentioned_names) > speaker_count * 2
       THEN /\ score' = score - 2
            /\ qa_issues' = Append(qa_issues, "many_names")
       ELSE UNCHANGED <<score, qa_issues>>
    /\ qa_pc' = "intros"
    /\ UNCHANGED <<speaker_count, mentioned_names, self_intros, qa_meeting_type, filename>>
    /\ QaFrame

\* `if self_intros`
QaCheckIntros ==
    /\ qa_pc = "intros"
    /\ score' = IF self_intros # <<>> THEN score + 1 ELSE score
    /\ qa_pc' = "filename"
    /\ UNCHANGED <<speaker_count, mentioned_names, self_intros, qa_meeting_type, filename,
                   qa_issues>>
    /\ QaFrame

\* `if filename: ... if names`
QaCheckFilename ==
    /\ qa_pc = "filename"
    /\ score' = IF filename = "names" THEN score + 1 ELSE score
    /\ qa_pc' = "normalize"
    /\ UNCHANGED <<speaker_count, mentioned_names, self_intros, qa_meeting_type, filename,
                   qa_issues>>
    /\ QaFrame

\* the mutation of the normalisation: the score is returned as computed
NormalizeNot(s) == s

\* max(0.0, min(1.0, score))
Normalize(s) == Max(0, Min(10, s))

\* `score = max(0.0, min(1.0, score))` and the return
QaNormalize ==
    /\ qa_pc = "normalize"
    /\ score' = Normalize(score)
    /\ qa_pc' = "returned"
    /\ UNCHANGED <<speaker_count, mentioned_names, self_intros, qa_meeting_type, filename,
                   qa_issues>>
    /\ QaFrame

QaNext ==
    \/ QaCheckOneOnOne
    \/ QaCheckMentioned
    \/ QaCheckIntros
    \/ QaCheckFilename
    \/ QaNormalize

\* C11: the quality score that _calculate_quality_score returns lies in [0.0, 1.0]
\* (0 .. 10 tenths) for every speaker count, mentioned-name set, self-introduction
\* map, meeting type and filename.
C11_QualityScoreInUnitInterval ==
    qa_pc = "returned" => (0 <= score /\ score <= 10)

\* a 1-on-1 with two speakers, a self-introduction and names in the filename: the
\* three bonuses took the score above 1.0 and the normalisation brought it back
C11_Witness ==
    /\ qa_pc = "returned"
    /\ qa_meeting_type = "1-on-1"
    /\ speaker_count = 2
    /\ self_intros # <<>>
    /\ filename = "names"
    /\ score = 10


(***************************************************************************)
(* The retry loop of transcriber.transcribe_with_whisper_async.  An        *)
(* attempt either fails before the service is reached (open(audio_path)    *)
(* raises), or calls the service, which raises or answers.                 *)
(***************************************************************************)
MaxRetries == 3

PollIntervals == {0, 1, 5}
Unbound == [kind |-> "unbound", attempt |-> 0]
NoException == [kind |-> "none", attempt |-> 0]
\* the outcome of the attempt numbered k (from 0): what it raised or what it got
OpenError(k) == [kind |-> "open_error", attempt |-> k]
ApiError(k) == [kind |-> "api_error", attempt |-> k]
Response(k) == [kind |-> "response", attempt |-> k]
FailureKinds == {"open_error", "api_error"}
\* the attempts that reached client.audio.transcriptions.create
ServiceCalls == {i \in 1 .. Len(attempts) : attempts[i].kind \in {"api_error", "response"}}

RetryIdle ==
    /\ max_retries = 0
    /\ poll_interval = 0
    /\ attempt = 0
    /\ attempts = <<>>
    /\ sleeps = <<>>
    /\ response = Unbound
    /\ raised = NoException
    /\ retry_pc = "idle"

\* the function is entered and the client is built
RetryInit ==
    /\ max_retries \in 0 .. MaxRetries
    /\ poll_interval \in PollIntervals
    /\ attempt = 0
    /\ attempts = <<>>
    /\ sleeps = <<>>
    /\ response = Unbound
    /\ raised = NoException
    /\ retry_pc = "loop"

\* the body of the try succeeds: response is bound and `break` leaves the loop
AttemptSucceeds ==
    /\ retry_pc = "loop"
    /\ attempt < max_retries
    /\ attempts' = Append(attempts, Response(attempt))
    /\ response' = Response(attempt)
    /\ retry_pc' = "after_loop"
    /\ UNCHANGED <<max_retries, poll_interval, attempt, sleeps, raised>>
    /\ RetryFrame

\* the mutation of the handler's test: every failed attempt is taken for the last
IsLastAttemptAlways(k, n) == TRUE

\* the negation of `attempt < max_retries - 1`
IsLastAttempt(k, n) == ~(k < n - 1)

\* the body of the try raises e: the handler sleeps if attempts are left, else `raise e`
AttemptFails(kind) ==
    /\ retry_pc = "loop"
    /\ attempt < max_retries
    /\ LET e == [kind |-> kind, attempt |-> attempt]
       IN  /\ attempts' = Append(attempts, e)
           /\ IF IsLastAttempt(attempt, max_retries)
              THEN /\ raised' = e
                   /\ retry_pc' = "raised"
              ELSE /\ retry_pc' = "sleep"
                   /\ UNCHANGED raised
    /\ UNCHANGED <<max_retries, poll_interval, attempt, sleeps, response>>
    /\ RetryFrame

\* `await asyncio.sleep(poll_interval)`, then the next iteration
RetrySleep ==
    /\ retry_pc = "sleep"
    /\ sleeps' = Append(sleeps, poll_interval)
    /\ attempt' = attempt + 1
    /\ retry_pc' = "loop"
    /\ UNCHANGED <<max_retries, poll_interval, attempts, response, raised>>
    /\ RetryFrame

\* range(max_retries) is empty: the loop body never runs and response stays unbound, so
\* the code after the loop raises UnboundLocalError out of its last fallback
RetryLoopEmpty ==
    /\ retry_pc = "loop"
    /\ max_retries = 0
    /\ raised' = [kind |-> "UnboundLocalError", attempt |-> 0]
    /\ retry_pc' = "raised"
    /\ UNCHANGED <<max_retries, poll_interval, attempt, attempts, sleeps, response>>
    /\ RetryFrame

\* after the loop the response is turned into the TranscriptionResult that is returned
RetryReturn ==
    /\ retry_pc = "after_loop"
    /\ retry_pc' = "returned"
    /\ UNCHANGED <<max_retries, poll_interval, attempt, attempts, sleeps, response, raised>>
    /\ RetryFrame

RetryNext ==
    \/ AttemptSucceeds
    \/ \E kind \in FailureKinds : AttemptFails(kind)
    \/ RetrySleep
    \/ RetryLoopEmpty
    \/ RetryReturn

\* C12: with max_retries = N >= 1 the service is called at most N times; no attempt
\* follows a successful one and the function returns that attempt's response; every
\* two consecutive attempts are separated by one sleep of poll_interval; and the
\* function raises only after N failed attempts, with the exception of the N-th.
C12_BoundedRetry ==
    max_retries >= 1 =>
        /\ Cardinality(ServiceCalls) <= max_retries
        /\ Len(attempts) <= max_retries
        /\ \A i \in 1 .. Len(attempts) - 1 : attempts[i].kind \in FailureKinds
        /\ \A i \in 1 .. Len(sleeps) : sleeps[i] = poll_interval
        /\ retry_pc = "loop" => Len(sleeps) = Len(attempts)
        /\ retry_pc \in {"sleep", "after_loop", "returned", "raised"}
              => Len(sleeps) = Len(attempts) - 1
        /\ retry_pc \in {"after_loop", "returned"}
              => /\ attempts[Len(attempts)].kind = "response"
                 /\ response = attempts[Len(attempts)]
                 /\ raised = NoException
        /\ retry_pc = "raised"
              => /\ Len(attempts) = max_retries
                 /\ \A i \in 1 .. Len(attempts) : attempts[i].kind \in FailureKinds
                 /\ raised = attempts[max_retries]

\* two failed attempts, two sleeps, then the third attempt's response is returned
C12_Witness ==
    /\ retry_pc = "returned"
    /\ max_retries = 3
    /\ Len(attempts) = 3
    /\ Len(sleeps) = 2
    /\ poll_interval = 5
    /\ response = Response(2)


(***************************************************************************)
(* speaker_validator.validate_mappings: the four checks, then the result.  *)
(* An issue is kept as a tag; the "unknown" test is a lookup in the names  *)
(* considered.                                                             *)
(***************************************************************************)
MaxMapped == 4

\* the names an AI response may hold; UnknownNames are those with "unknown" in v.lower()
MappedNames == {"Alice", "Bob", "Unknown", "unknown speaker"}
UnknownNames == {"Unknown", "unknown speaker"}
ValidatedMappings ==
    UNION {{[i \in 1 .. n |-> Entry(LabelTable[i], ns[i])] : ns \in [1 .. n -> MappedNames]} :
           n \in 0 .. MaxMapped}
\* the analysis argument: None, a SpeakerAnalysis (which has no mentioned_only
\* attribute), or an object that carries one
Analyses == {"none", "plain", "with_mentioned_only"}
\* getattr(analysis, 'mentioned_only', set())
MentionedOnlyOf(a) == IF a = "with_mentioned_only" THEN {"Bob"} ELSE {}

VmIdle ==
    /\ vm_mappings = <<>>
    /\ diarization_speaker_count = 0
    /\ vm_meeting_type = "none"
    /\ vm_filename = "none"
    /\ analysis = "none"
    /\ issues = <<>>
    /\ needs_refinement = FALSE
    /\ corrected_mappings = <<>>
    /\ confidence = ""
    /\ is_valid = FALSE
    /\ vm_pc = "idle"

\* validate_mappings is entered: issues = [], needs_refinement = False,
\* corrected_mappings = mappings.copy()
\* a response whose keys are not in label order
ReorderedMappings ==
    {<<Entry("SPEAKER_02", "Alice"), Entry("SPEAKER_00", "Bob"),
       Entry("SPEAKER_01", "Unknown")>>}

VmInit ==
    /\ vm_mappings \in ValidatedMappings \cup ReorderedMappings
    /\ diarization_speaker_count \in 0 .. MaxSpeakers
    /\ vm_meeting_type \in {"1-on-1", "interview", "none"}
    /\ vm_filename \in Filenames
    /\ analysis \in Analyses
    /\ issues = <<>>
    /\ needs_refinement = FALSE
    /\ corrected_mappings = vm_mappings
    /\ confidence = ""
    /\ is_valid = FALSE
    /\ vm_pc = "count_1on1"

\* Check 1: a 1-on-1 with a mapping of another size than 2
VmCheckOneOnOne ==
    /\ vm_pc = "count_1on1"
    /\ IF vm_meeting_type = "1-on-1" /\ Len(vm_mappings) # 2
       THEN /\ needs_refinement' = TRUE
            /\ IF Len(vm_mappings) > 2
               THEN /\ corrected_mappings' = FirstTwo(vm_mappings)
                    /\ issues' = issues \o <<"expected_2", "auto_corrected">>
               ELSE /\ issues' = Append(issues, "expected_2")
                    /\ UNCHANGED corrected_mappings
       ELSE UNCHANGED <<needs_refinement, corrected_mappings, issues>>
    /\ vm_pc' = "count_diar"
    /\ UNCHANGED <<vm_mappings, diarization_speaker_count, vm_meeting_type, vm_filename,
                   analysis, confidence, is_valid>>
    /\ VmFrame

Abs(x) == IF x < 0 THEN 0 - x ELSE x

\* the mutation of Check 2: any difference asks for refinement
CountAsksRefinementAlways(mapped_count, count) == mapped_count # count

\* `abs(mapped_count - diarization_speaker_count) > 1`
CountAsksRefinement(mapped_count, count) == Abs(mapped_count - count) > 1

\* Check 2: the mapping size against the diarization count
VmCheckCount ==
    /\ vm_pc = "count_diar"
    /\ IF Len(vm_mappings) # diarization_speaker_count
       THEN /\ issues' = Append(issues, "count_mismatch")
            /\ needs_refinement' =
                  (needs_refinement
                     \/ CountAsksRefinement(Len(vm_mappings), diarization_speaker_count))
       ELSE UNCHANGED <<issues, needs_refinement>>
    /\ vm_pc' = "unknown"
    /\ UNCHANGED <<vm_mappings, diarization_speaker_count, vm_meeting_type, vm_filename,
                   analysis, corrected_mappings, confidence, is_valid>>
    /\ VmFrame

\* sum(1 for v in mappings.values() if "unknown" in v.lower())
UnknownCount(m) == Cardinality({i \in 1 .. Len(m) : m[i].name \in UnknownNames})

\* Check 3: "Unknown" values although the filename yields names
VmCheckUnknown ==
    /\ vm_pc = "unknown"
    /\ IF UnknownCount(vm_mappings) > 0 /\ vm_filename = "names"
       THEN /\ issues' = Append(issues, "unknown_despite_names")
            /\ needs_refinement' = TRUE
       ELSE UNCHANGED <<issues, needs_refinement>>
    /\ vm_pc' = "mentioned"
    /\ UNCHANGED <<vm_mappings, diarization_speaker_count, vm_meeting_type, vm_filename,
                   analysis, corrected_mappings, confidence, is_valid>>
    /\ VmFrame

\* the warnings of Check 4, one per entry whose name is in mentioned_only
MentionedWarnings(m, names) ==
    LET hits == SelectSeq(m, LAMBDA e : e.name \in names)
    IN  [i \in 1 .. Len(hits) |-> "mentioned_as_speaker"]

\* Check 4: names that are only mentioned but mapped as speakers
VmCheckMentioned ==
    /\ vm_pc = "mentioned"
    /\ issues' = IF analysis # "none"
                 THEN issues \o MentionedWarnings(vm_mappings, MentionedOnlyOf(analysis))
                 ELSE issues
    /\ vm_pc' = "result"
    /\ UNCHANGED <<vm_mappings, diarization_speaker_count, vm_meeting_type, vm_filename,
                   analysis, needs_refinement, corrected_mappings, confidence, is_valid>>
    /\ VmFrame

\* the mutation of the confidence: needs_refinement is not looked at
ConfidenceByCount(n_issues, refine) ==
    IF n_issues = 0 THEN "high" ELSE IF n_issues <= 2 THEN "medium" ELSE "low"

\* `if len(issues) == 0 ... elif len(issues) <= 2 and not needs_refinement ... else`
Confidence(n_issues, refine) ==
    IF n_issues = 0 THEN "high" ELSE IF n_issues <= 2 /\ ~refine THEN "medium" ELSE "low"

\* the mutation of is_valid: needs_refinement is not looked at
IsValidByCount(n_issues, refine) == n_issues <= 1

\* is_valid=len(issues) == 0 or (len(issues) <= 1 and not needs_refinement)
IsValid(n_issues, refine) == n_issues = 0 \/ (n_issues <= 1 /\ ~refine)

\* the confidence is determined and the ValidationResult returned
VmReturn ==
    /\ vm_pc = "result"
    /\ confidence' = Confidence(Len(issues), needs_refinement)
    /\ is_valid' = IsValid(Len(issues), needs_refinement)
    /\ vm_pc' = "returned"
    /\ UNCHANGED <<vm_mappings, diarization_speaker_count, vm_meeting_type, vm_filename,
                   analysis, issues, needs_refinement, corrected_mappings>>
    /\ VmFrame

VmNext ==
    \/ VmCheckOneOnOne
    \/ VmCheckCount
    \/ VmCheckUnknown
    \/ VmCheckMentioned
    \/ VmReturn

\* C33: when the meeting type is 1-on-1 and the proposed mapping has more than two
\* entries, the corrected mapping of the result is the first two entries of the
\* proposed mapping in insertion order with their values, and the proposed mapping
\* is not modified by any step of validate_mappings.
C33_CorrectionIsFirstTwo ==
    [][/\ vm_pc # "idle" => vm_mappings' = vm_mappings
       /\ (vm_pc' = "returned" /\ vm_meeting_type' = "1-on-1" /\ Len(vm_mappings') > 2)
            => /\ corrected_mappings' = <<vm_mappings'[1], vm_mappings'[2]>>
               /\ corrected_mappings' # vm_mappings']_vars

\* a 1-on-1 result for a three-entry response whose first key is not the smallest label
C33_Witness ==
    /\ vm_pc = "returned"
    /\ vm_meeting_type = "1-on-1"
    /\ vm_mappings \in ReorderedMappings
    /\ corrected_mappings = <<Entry("SPEAKER_02", "Alice"), Entry("SPEAKER_00", "Bob")>>

\* C19: validate_mappings returns needs_refinement true exactly when the meeting is a
\* 1-on-1 and the mapping size is not 2, or the mapping size differs from the
\* diarization label count by more than 1, or some value contains "unknown" and the
\* filename yields names; and a count-mismatch issue is recorded whenever the mapping
\* size differs from the diarization label count, also when the difference is 1.
C19_NeedsRefinementIff ==
    vm_pc = "returned" =>
        /\ needs_refinement <=>
              \/ (vm_meeting_type = "1-on-1" /\ Len(vm_mappings) # 2)
              \/ Len(vm_mappings) - diarization_speaker_count > 1
              \/ diarization_speaker_count - Len(vm_mappings) > 1
              \/ (\E i \in 1 .. Len(vm_mappings) : vm_mappings[i].name \in UnknownNames)
                    /\ vm_filename = "names"
        /\ Len(vm_mappings) # diarization_speaker_count
              => \E i \in 1 .. Len(issues) : issues[i] = "count_mismatch"

\* three speakers mapped, two diarized, no 1-on-1: the mismatch is an issue, but no
\* refinement is asked for
C19_Witness ==
    /\ vm_pc = "returned"
    /\ vm_meeting_type = "interview"
    /\ Len(vm_mappings) = 3
    /\ diarization_speaker_count = 2
    /\ issues = <<"count_mismatch">>
    /\ ~needs_refinement

\* C20: in every result of validate_mappings the confidence is "high" exactly when
\* there is no issue, "medium" when there are one or two issues and needs_refinement
\* is false, and "low" otherwise; is_valid is true exactly when there is no issue, or
\* exactly one issue and needs_refinement is false.
C20_ConfidenceAndValidity ==
    vm_pc = "returned" =>
        /\ confidence = "high" <=> Len(issues) = 0
        /\ (Len(issues) \in {1, 2} /\ ~needs_refinement) => confidence = "medium"
        /\ (Len(issues) > 2 \/ (Len(issues) > 0 /\ needs_refinement)) => confidence = "low"
        /\ is_valid <=> (Len(issues) = 0 \/ (Len(issues) = 1 /\ ~needs_refinement))

\* two issues without a refinement request: medium confidence, not valid
C20_Witness ==
    /\ vm_pc = "returned"
    /\ Len(issues) = 2
    /\ ~needs_refinement
    /\ confidence = "medium"
    /\ ~is_valid


(***************************************************************************)
(* The pre-analysis handed to validate_mappings.  A SpeakerAnalysis has    *)
(* mentioned_names and self_introductions, and no mentioned_only.          *)
(***************************************************************************)
\* the SpeakerAnalysis considered: Alice and Bob are mentioned, Alice introduced herself
SpeakerAnalysisMentionedNames == {"Alice", "Bob"}
SpeakerAnalysisSelfIntroductions == <<Entry("SPEAKER_00", "alice")>>

\* identify_actual_speakers_vs_mentioned: 'mentioned_only'
MentionedOnly(mentioned, self_introductions) == mentioned \ Values(self_introductions)

\* the mappings of validate_mappings whose value is a mentioned-only name
MappedMentionedOnly ==
    {i \in 1 .. Len(vm_mappings) :
        vm_mappings[i].name \in
            MentionedOnly(SpeakerAnalysisMentionedNames, SpeakerAnalysisSelfIntroductions)}

\* C21: validate_mappings called with the pre-analysis records a warning issue for
\* every mapping whose value is a mentioned-only name of that pre-analysis, and this
\* rule alone does not set needs_refinement.
C21_MentionedOnlyWarned ==
    (vm_pc = "returned" /\ analysis = "plain") =>
        /\ Cardinality({k \in 1 .. Len(issues) : issues[k] = "mentioned_as_speaker"})
              = Cardinality(MappedMentionedOnly)
        /\ needs_refinement <=>
              \/ (vm_meeting_type = "1-on-1" /\ Len(vm_mappings) # 2)
              \/ CountAsksRefinement(Len(vm_mappings), diarization_speaker_count)
              \/ (UnknownCount(vm_mappings) > 0 /\ vm_filename = "names")


(***************************************************************************)
(* speaker_validator.should_trigger_refinement: three tests in order, the  *)
(* first one that holds returns True.                                      *)
(***************************************************************************)
\* `quality_score < 0.6`, in tenths
QualityThreshold == 6

\* a quality score is a Normalize result: 0.0 .. 1.0 in tenths
QualityScores == {Normalize(s) : s \in 0 .. 10}
ValidationResults == [is_valid : BOOLEAN, needs_refinement : BOOLEAN]

TrigIdle ==
    /\ validation_result = [is_valid |-> TRUE, needs_refinement |-> FALSE]
    /\ quality_score = 0
    /\ trigger = "unset"
    /\ trig_pc = "idle"

TrigInit ==
    /\ validation_result \in ValidationResults
    /\ quality_score \in QualityScores
    /\ trigger = "unset"
    /\ trig_pc = "valid"

\* `if not validation_result.is_valid: return True`
TrigCheckValid ==
    /\ trig_pc = "valid"
    /\ IF ~validation_result.is_valid
       THEN trigger' = "true" /\ trig_pc' = "returned"
       ELSE trigger' = trigger /\ trig_pc' = "score"
    /\ UNCHANGED <<validation_result, quality_score>>
    /\ TrigFrame

\* the mutation of the score test: no score is low
IsLowQualityNever(q) == FALSE

\* `quality_score < 0.6`
IsLowQuality(q) == q < QualityThreshold

\* `if quality_score < 0.6: return True`
TrigCheckScore ==
    /\ trig_pc = "score"
    /\ IF IsLowQuality(quality_score)
       THEN trigger' = "true" /\ trig_pc' = "returned"
       ELSE trigger' = trigger /\ trig_pc' = "flag"
    /\ UNCHANGED <<validation_result, quality_score>>
    /\ TrigFrame

\* `if validation_result.needs_refinement: return True`, else `return False`
TrigCheckFlag ==
    /\ trig_pc = "flag"
    /\ trigger' = IF validation_result.needs_refinement THEN "true" ELSE "false"
    /\ trig_pc' = "returned"
    /\ UNCHANGED <<validation_result, quality_score>>
    /\ TrigFrame

TrigNext ==
    \/ TrigCheckValid
    \/ TrigCheckScore
    \/ TrigCheckFlag

\* C22: should_trigger_refinement(result, quality_score) returns true if and only if
\* result.is_valid is false, or quality_score is below 0.6, or
\* result.needs_refinement is true.
C22_TriggerIff ==
    trig_pc = "returned" =>
        /\ trigger \in {"true", "false"}
        /\ trigger = "true" <=>
              \/ ~validation_result.is_valid
              \/ quality_score < 6
              \/ validation_result.needs_refinement

\* a valid result without a refinement request, and a score of 0.5: True is returned
C22_Witness ==
    /\ trig_pc = "returned"
    /\ validation_result.is_valid
    /\ ~validation_result.needs_refinement
    /\ quality_score = 5
    /\ trigger = "true"


(***************************************************************************)
(* One file through an entry point: cli._process_single_file, or           *)
(* pipeline_stages.run_full_pipeline with its three stages.  The services  *)
(* (diarization, transcription with its retries, chat completion) answer   *)
(* or raise; every call is kept in service_calls.                          *)
(***************************************************************************)
OpenAiModels == {"gpt-5-mini", "gpt-4o"}
IdentifyModels == OpenAiModels \cup {"gemini-2.0-flash"}
\* a service answers or raises; a chat completion answers with content that holds
\* mappings, holds none, or is no JSON, or raises with or without "invalid" or
\* "model_not_found" in the message
CallOutcomes == {"ok", "error"}
ChatOutcomes == {"mappings", "empty", "unparseable", "error", "error_invalid"}
ServiceCall(service, model, outcome) ==
    [service |-> service, model |-> model, outcome |-> outcome]

FileIdle ==
    /\ entry = "none"
    /\ fp_identify_speakers = FALSE
    /\ fp_ai_model = ""
    /\ service_calls = <<>>
    /\ speakers_assigned = FALSE
    /\ fp_mappings = "none"
    /\ stage1_returned = "no"
    /\ stage2_returned = "no"
    /\ started = <<>>
    /\ fp_warnings = {}
    /\ identify_raised = FALSE
    /\ written = "none"
    /\ fp_pc = "idle"

\* an entry point is called for a file
FileInit ==
    /\ entry \in {"single", "full"}
    /\ fp_identify_speakers \in BOOLEAN
    /\ fp_ai_model \in IdentifyModels
    /\ service_calls = <<>>
    /\ speakers_assigned = FALSE
    /\ fp_mappings = "none"
    /\ stage1_returned = "no"
    /\ stage2_returned = "no"
    /\ started = <<>>
    /\ fp_warnings = {}
    /\ identify_raised = FALSE
    /\ written = "none"
    /\ fp_pc = IF entry = "single" THEN "validate" ELSE "stage1"

\* the step after Stage 1 returned its path: `if identify_speakers:`
AfterStage1Always(identify) == "stage2"

AfterStage1(identify) == IF identify THEN "stage2" ELSE "stage3"

\* _process_single_file: validate_audio_file; `if not ok: raise click.ClickException`
FpValidate ==
    /\ fp_pc = "validate"
    /\ \E ok \in BOOLEAN : fp_pc' = IF ok THEN "diarize" ELSE "raised"
    /\ UNCHANGED <<entry, fp_identify_speakers, fp_ai_model, service_calls,
                   speakers_assigned, fp_mappings, stage1_returned, stage2_returned,
                   started, fp_warnings, identify_raised, written>>
    /\ FileFrame

\* stage1_transcribe_and_diarize is entered; a cache hit returns the cached path
FpStage1CheckCache ==
    /\ fp_pc = "stage1"
    /\ started' = Append(started, "stage1")
    /\ \E hit \in BOOLEAN :
          IF hit
          THEN /\ stage1_returned' = "cached"
               /\ fp_pc' = AfterStage1(fp_identify_speakers)
          ELSE /\ stage1_returned' = stage1_returned
               /\ fp_pc' = "diarize"
    /\ UNCHANGED <<entry, fp_identify_speakers, fp_ai_model, service_calls,
                   speakers_assigned, fp_mappings, stage2_returned, fp_warnings,
                   identify_raised, written>>
    /\ FileFrame

\* the mutation: a diarization that raised is taken for an empty list of turns
AfterDiarizationLenient(outcome) == "transcribe"

\* run_transcription_pipeline, Step 1: an exception of run_diarization leaves the
\* coroutine, and both entry points let it out (as ClickException in the CLI)
AfterDiarization(outcome) == IF outcome = "ok" THEN "transcribe" ELSE "raised"

\* `diarization_segments = await asyncio.to_thread(run_diarization, ...)`
FpDiarize ==
    /\ fp_pc = "diarize"
    /\ \E outcome \in CallOutcomes :
          /\ service_calls' = Append(service_calls, ServiceCall("diarization", "", outcome))
          /\ fp_pc' = AfterDiarization(outcome)
    /\ UNCHANGED <<entry, fp_identify_speakers, fp_ai_model, speakers_assigned,
                   fp_mappings, stage1_returned, stage2_returned, started, fp_warnings,
                   identify_raised, written>>
    /\ FileFrame

\* the mutation: a transcription that raised is taken for an empty result
AfterTranscriptionLenient(outcome) == "align"

\* run_transcription_pipeline, Step 2: the exception of the last retry leaves
AfterTranscription(outcome) == IF outcome = "ok" THEN "align" ELSE "raised"

\* `transcription_result = await transcribe_with_whisper_async(...)`: the call with
\* all its retries
FpTranscribe ==
    /\ fp_pc = "transcribe"
    /\ \E outcome \in CallOutcomes :
          /\ service_calls' =
                Append(service_calls, ServiceCall("transcription", "", outcome))
          /\ fp_pc' = AfterTranscription(outcome)
    /\ UNCHANGED <<entry, fp_identify_speakers, fp_ai_model, speakers_assigned,
                   fp_mappings, stage1_returned, stage2_returned, started, fp_warnings,
                   identify_raised, written>>
    /\ FileFrame

\* run_transcription_pipeline, Step 3: every segment gets find_speaker_for_segment's
\* label, and the result is returned
FpAlign ==
    /\ fp_pc = "align"
    /\ speakers_assigned' = TRUE
    /\ fp_pc' = IF entry = "full" THEN "save1"
                ELSE IF fp_identify_speakers THEN "identify" ELSE "export"
    /\ UNCHANGED <<entry, fp_identify_speakers, fp_ai_model, service_calls, fp_mappings,
                   stage1_returned, stage2_returned, started, fp_warnings,
                   identify_raised, written>>
    /\ FileFrame

\* Stage 1 saves the intermediate transcript and returns its path
FpStage1Save ==
    /\ fp_pc = "save1"
    /\ stage1_returned' = "saved"
    /\ fp_pc' = AfterStage1(fp_identify_speakers)
    /\ UNCHANGED <<entry, fp_identify_speakers, fp_ai_model, service_calls,
                   speakers_assigned, fp_mappings, stage2_returned, started,
                   fp_warnings, identify_raised, written>>
    /\ FileFrame

\* _identify_with_openai without a pre_analysis: the else branch reads the name
\* mentioned_names, which is bound nowhere, and NameError leaves before any call
NoPreAnalysisRaises(model) == model \in OpenAiModels

\* the mappings a chat completion's content yields
MappingsOf(outcome) == IF outcome = "mappings" THEN "some" ELSE "empty"

\* _process_single_file: identify_speakers_ai(...) inside try/except Exception; an
\* exception or an empty mapping is a warning, and the generic labels stay
FpIdentifySingle ==
    /\ fp_pc = "identify"
    /\ IF NoPreAnalysisRaises(fp_ai_model)
       THEN /\ identify_raised' = TRUE
            /\ fp_warnings' = fp_warnings \cup {"identification_failed"}
            /\ UNCHANGED <<service_calls, fp_mappings>>
       ELSE \E outcome \in ChatOutcomes :
               /\ service_calls' = Append(service_calls,
                                          ServiceCall("chat", "gemini-2.0-flash-exp", outcome))
               /\ identify_raised' = (outcome \notin {"mappings", "empty"})
               /\ fp_mappings' = IF outcome = "mappings" THEN "some" ELSE fp_mappings
               /\ fp_warnings' =
                     fp_warnings \cup
                        (CASE outcome = "mappings" -> {}
                           [] outcome = "empty" -> {"no_mappings"}
                           [] OTHER -> {"identification_failed"})
    /\ fp_pc' = "export"
    /\ UNCHANGED <<entry, fp_identify_speakers, fp_ai_model, speakers_assigned,
                   stage1_returned, stage2_returned, started, written>>
    /\ FileFrame

\* _process_single_file: the exports, with the names where mappings were applied
FpExport ==
    /\ fp_pc = "export"
    /\ written' = IF fp_mappings = "some" THEN "named" ELSE "generic"
    /\ fp_pc' = "returned"
    /\ UNCHANGED <<entry, fp_identify_speakers, fp_ai_model, service_calls,
                   speakers_assigned, fp_mappings, stage1_returned, stage2_returned,
                   started, fp_warnings, identify_raised>>
    /\ FileFrame

\* stage2_identify_speakers is entered; a cache hit returns the cached mappings file
FpStage2CheckCache ==
    /\ fp_pc = "stage2"
    /\ started' = Append(started, "stage2")
    /\ \E hit \in BOOLEAN :
          IF hit
          THEN /\ stage2_returned' = "cached"
               /\ \E m \in {"empty", "some"} : fp_mappings' = m
               /\ fp_pc' = "stage3"
          ELSE /\ UNCHANGED <<stage2_returned, fp_mappings>>
               /\ fp_pc' = "chat"
    /\ UNCHANGED <<entry, fp_identify_speakers, fp_ai_model, service_calls,
                   speakers_assigned, stage1_returned, fp_warnings, identify_raised,
                   written>>
    /\ FileFrame

\* `if model_name == "gpt-5-mini": actual_model = "o1-mini"`; Gemini's model name
ActualModel(model) ==
    CASE model = "gpt-5-mini" -> "o1-mini"
      [] model = "gpt-4o" -> "gpt-4o"
      [] OTHER -> "gemini-2.0-flash-exp"

\* _identify_with_openai's except clause: the call is made again on gpt-4o when the
\* message holds "model_not_found" or "invalid", or when the model was o1-mini
FallsBack(model, outcome) ==
    /\ model \in OpenAiModels
    /\ outcome \in {"error", "error_invalid"}
    /\ (outcome = "error_invalid" \/ ActualModel(model) = "o1-mini")

\* Stage 2, identify_speakers with the pre-analysis: the chat completion call, then
\* json.loads of its content.  Stage 2 and run_full_pipeline catch nothing.
FpChat ==
    /\ fp_pc = "chat"
    /\ \E outcome \in ChatOutcomes :
          /\ service_calls' =
                Append(service_calls, ServiceCall("chat", ActualModel(fp_ai_model), outcome))
          /\ IF outcome \in {"mappings", "empty"}
             THEN /\ fp_mappings' = MappingsOf(outcome)
                  /\ fp_pc' = "save2"
                  /\ UNCHANGED identify_raised
             ELSE IF FallsBack(fp_ai_model, outcome)
             THEN /\ fp_pc' = "chat_fallback"
                  /\ UNCHANGED <<fp_mappings, identify_raised>>
             ELSE /\ identify_raised' = TRUE
                  /\ fp_pc' = "raised"
                  /\ UNCHANGED fp_mappings
    /\ UNCHANGED <<entry, fp_identify_speakers, fp_ai_model, speakers_assigned,
                   stage1_returned, stage2_returned, started, fp_warnings, written>>
    /\ FileFrame

\* the second client.chat.completions.create, on gpt-4o, inside the except clause
FpChatFallback ==
    /\ fp_pc = "chat_fallback"
    /\ \E outcome \in ChatOutcomes :
          /\ service_calls' = Append(service_calls, ServiceCall("chat", "gpt-4o", outcome))
          /\ IF outcome \in {"mappings", "empty"}
             THEN /\ fp_mappings' = MappingsOf(outcome)
                  /\ fp_pc' = "save2"
                  /\ UNCHANGED identify_raised
             ELSE /\ identify_raised' = TRUE
                  /\ fp_pc' = "raised"
                  /\ UNCHANGED fp_mappings
    /\ UNCHANGED <<entry, fp_identify_speakers, fp_ai_model, speakers_assigned,
                   stage1_returned, stage2_returned, started, fp_warnings, written>>
    /\ FileFrame

\* Stage 2 writes the mappings file and returns its path
FpStage2Save ==
    /\ fp_pc = "save2"
    /\ stage2_returned' = "saved"
    /\ fp_pc' = "stage3"
    /\ UNCHANGED <<entry, fp_identify_speakers, fp_ai_model, service_calls,
                   speakers_assigned, fp_mappings, stage1_returned, started,
                   fp_warnings, identify_raised, written>>
    /\ FileFrame

\* stage3_apply_speaker_names: mappings = {} without a mappings file; the segments
\* carry mappings.get(seg['speaker'], seg['speaker'])
FpStage3 ==
    /\ fp_pc = "stage3"
    /\ started' = Append(started, "stage3")
    /\ written' = IF stage2_returned # "no" /\ fp_mappings = "some"
                  THEN "named" ELSE "generic"
    /\ fp_pc' = "returned"
    /\ UNCHANGED <<entry, fp_identify_speakers, fp_ai_model, service_calls,
                   speakers_assigned, fp_mappings, stage1_returned, stage2_returned,
                   fp_warnings, identify_raised>>
    /\ FileFrame

FileNext ==
    \/ FpValidate
    \/ FpStage1CheckCache
    \/ FpDiarize
    \/ FpTranscribe
    \/ FpAlign
    \/ FpStage1Save
    \/ FpIdentifySingle
    \/ FpExport
    \/ FpStage2CheckCache
    \/ FpChat
    \/ FpChatFallback
    \/ FpStage2Save
    \/ FpStage3

CallsOf(service) == SelectSeq(service_calls, LAMBDA c : c.service = service)
FailedCalls(service) ==
    SelectSeq(service_calls, LAMBDA c : c.service = service /\ c.outcome = "error")


\* C23: a failure of the AI identification never aborts the processing of a file:
\* under both entry points the entry point is not left by an exception, and when it
\* returns the output files are there with the generic labels and the failure is a
\* recorded warning.
C23_IdentificationFailureTolerated ==
    identify_raised =>
        /\ fp_pc # "raised"
        /\ fp_pc = "returned" =>
              (written = "generic" /\ "identification_failed" \in fp_warnings)

\* C24: in single-file mode, when the diarization or the transcription (with all its
\* retries) has failed, _process_single_file raises to its caller, the chat
\* completion service has not been called and no transcript file is exported.
C24_PipelineFailureSurfaces ==
    (/\ entry = "single"
     /\ Len(FailedCalls("diarization")) + Len(FailedCalls("transcription")) > 0)
        => /\ fp_pc = "raised"
           /\ CallsOf("chat") = <<>>
           /\ written = "none"

\* identification was asked for, the diarization answered and the transcription
\* failed: the call was left by the exception
C24_Witness ==
    /\ entry = "single"
    /\ fp_identify_speakers
    /\ fp_ai_model = "gemini-2.0-flash"
    /\ Len(service_calls) = 2
    /\ service_calls[1] = ServiceCall("diarization", "", "ok")
    /\ service_calls[2] = ServiceCall("transcription", "", "error")
    /\ fp_pc = "raised"

StartedStages == {started[i] : i \in 1 .. Len(started)}

\* C25: in run_full_pipeline Stage 2 is entered only after Stage 1 has returned a path
\* (cached or saved); with identification enabled Stage 3 is entered only after
\* Stage 2 has returned its mappings file; with identification disabled the chat
\* completion service is never called and the outputs carry the generic labels.
C25_StageOrder ==
    entry = "full" =>
        /\ "stage2" \in StartedStages => stage1_returned # "no"
        /\ "stage3" \in StartedStages =>
              /\ stage1_returned # "no"
              /\ fp_identify_speakers => stage2_returned # "no"
        /\ ~fp_identify_speakers =>
              /\ CallsOf("chat") = <<>>
              /\ "stage2" \notin StartedStages
              /\ written \in {"none", "generic"}
              /\ fp_pc = "returned" => written = "generic"

\* identification disabled: Stage 1 computed its artifact, Stage 3 ran right after it
\* and the outputs are generic
C25_Witness ==
    /\ entry = "full"
    /\ ~fp_identify_speakers
    /\ stage1_returned = "saved"
    /\ started = <<"stage1", "stage3">>
    /\ written = "generic"
    /\ fp_pc = "returned"

\* C26: in run_transcription_pipeline no segment is assigned a speaker label before
\* both the diarization call and the transcription call have succeeded; when either
\* fails there is no alignment and the failure leaves to the caller.
C26_AlignAfterBoth ==
    /\ speakers_assigned =>
          /\ \E i \in 1 .. Len(service_calls) :
                service_calls[i] = ServiceCall("diarization", "", "ok")
          /\ \E i \in 1 .. Len(service_calls) :
                service_calls[i] = ServiceCall("transcription", "", "ok")
    /\ Len(FailedCalls("diarization")) + Len(FailedCalls("transcription")) > 0
          => (~speakers_assigned /\ fp_pc = "raised")

\* both calls answered and the segments carry their labels
C26_Witness ==
    /\ speakers_assigned
    /\ service_calls = <<ServiceCall("diarization", "", "ok"),
                         ServiceCall("transcription", "", "ok")>>
    /\ fp_pc \in {"save1", "identify", "export"}

\* C27: within the processing of one file the diarization service and the chat
\* completion service are each called at most once, whatever the AI model: a failed
\* call is never followed by another attempt.
C27_SingleAttempt ==
    /\ Len(CallsOf("diarization")) <= 1
    /\ Len(CallsOf("chat")) <= 1


(***************************************************************************)
(* The paths written for a file.  Two tasks process two different input    *)
(* files into one output directory; every path a task writes is derived    *)
(* from the stem of its input file.                                        *)
(***************************************************************************)
\* the files of an input tree that a glob may match
InputFiles ==
    {<<"/", "work", "in", "meeting.m4a">>,
     <<"/", "work", "in", "meeting.mp3">>,
     <<"/", "work", "in", "meeting_speakers.m4a">>,
     <<"/", "work", "in", "notes.m4a">>,
     <<"/", "work", "in", "sub", "meeting.m4a">>}
Tasks == {1, 2}

\* f"{base_name}_stage1_transcript.json" and f"{base_name}_stage2_speaker_mappings.json"
\* under output_dir, base_name = Path(audio_path).stem
CachePaths(audio_path, output_dir) ==
    {PathJoin(output_dir, Stem(audio_path) \o "_stage1_transcript.json"),
     PathJoin(output_dir, Stem(audio_path) \o "_stage2_speaker_mappings.json")}

\* export_txt, export_json, export_srt, and export_txt_with_speakers when there are
\* mappings, with base_name = _default_base_name(input_path)
ExportPaths(input_path, output_dir, named) ==
    {PathJoin(output_dir, Stem(input_path) \o sfx) :
        sfx \in {".txt", ".json", ".srt"} \cup (IF named THEN {"_speakers.txt"} ELSE {})}

WrIdle ==
    /\ in_files = <<>>
    /\ wr_entry = "none"
    /\ paths_written = <<>>
    /\ wr_pc = <<>>

\* two tasks are started for two different files
WrInit ==
    /\ in_files \in {fs \in [Tasks -> InputFiles] : fs[1] # fs[2]}
    /\ wr_entry \in {"single", "full"}
    /\ paths_written = [t \in Tasks |-> {}]
    /\ wr_pc = [t \in Tasks |-> IF wr_entry = "full" THEN "cache" ELSE "export"]

\* run_full_pipeline: Stage 1 and Stage 2 write their artifacts
WrCache(t) ==
    /\ wr_pc[t] = "cache"
    /\ paths_written' =
          [paths_written EXCEPT ![t] = @ \cup CachePaths(in_files[t], OutputDir)]
    /\ wr_pc' = [wr_pc EXCEPT ![t] = "export"]
    /\ UNCHANGED <<in_files, wr_entry>>
    /\ WrFrame

\* the exports of _process_single_file or of Stage 3
WrExport(t) ==
    /\ wr_pc[t] = "export"
    /\ \E named \in BOOLEAN :
          paths_written' =
             [paths_written EXCEPT ![t] = @ \cup ExportPaths(in_files[t], OutputDir, named)]
    /\ wr_pc' = [wr_pc EXCEPT ![t] = "done"]
    /\ UNCHANGED <<in_files, wr_entry>>
    /\ WrFrame

WrNext ==
    \/ \E t \in Tasks : WrCache(t)
    \/ \E t \in Tasks : WrExport(t)

\* C28: for two different input files processed concurrently into the same output
\* directory, the cache and output paths written for the one and for the other are
\* disjoint.
C28_WrittenPathsDisjoint ==
    wr_pc # <<>> => paths_written[1] \cap paths_written[2] = {}


(***************************************************************************)
(* The objects that the process_file tasks of a batch read and write.      *)
(* Each task has its own ProcessingMetrics and its own event loop; the     *)
(* module-level objects are ai_logger._global_logger and the configuration *)
(* of the google.generativeai package.                                     *)
(***************************************************************************)
ModuleObjects == {"_global_logger", "genai"}
\* an object of the process: module-level (owner 0) or created by a task
Objects ==
    {[name |-> n, owner |-> 0] : n \in ModuleObjects}
       \cup {[name |-> n, owner |-> t] : n \in {"metrics", "loop"}, t \in Files}
Touch(acc, name, owner, t) ==
    [acc EXCEPT ![[name |-> name, owner |-> owner]] = @ \cup {t}]

ShIdle ==
    /\ sh_identify_speakers = FALSE
    /\ sh_ai_model = ""
    /\ global_logger = "None"
    /\ genai_configured = FALSE
    /\ accessed = <<>>
    /\ sh_pc = <<>>

\* every matched file has been handed to a worker thread
ShInit ==
    /\ sh_identify_speakers \in BOOLEAN
    /\ sh_ai_model \in IdentifyModels
    /\ global_logger = "None"
    /\ genai_configured = FALSE
    /\ accessed = [o \in Objects |-> {}]
    /\ sh_pc = [t \in Files |-> "pipeline"]

\* _process_single_file up to the identification: metrics = ProcessingMetrics(),
\* loop = asyncio.new_event_loop(), the pipeline run on that loop
ShPipeline(t) ==
    /\ sh_pc[t] = "pipeline"
    /\ accessed' = Touch(Touch(accessed, "metrics", t, t), "loop", t, t)
    /\ sh_pc' = [sh_pc EXCEPT ![t] = IF sh_identify_speakers THEN "identify" ELSE "export"]
    /\ UNCHANGED <<sh_identify_speakers, sh_ai_model, global_logger, genai_configured>>
    /\ ShFrame

\* identify_speakers_ai(...) without a pre_analysis.  OpenAI models: NameError before
\* get_ai_logger() is reached (were it reached, the task would create or read
\* _global_logger).  Gemini: genai.configure(api_key=...) sets the package's
\* configuration.
ShIdentify(t) ==
    /\ sh_pc[t] = "identify"
    /\ IF sh_ai_model \in OpenAiModels
       THEN IF NoPreAnalysisRaises(sh_ai_model)
            THEN /\ sh_pc' = [sh_pc EXCEPT ![t] = "export"]
                 /\ UNCHANGED <<global_logger, genai_configured, accessed>>
            ELSE /\ global_logger' = "AILogger"
                 /\ accessed' = Touch(accessed, "_global_logger", 0, t)
                 /\ sh_pc' = [sh_pc EXCEPT ![t] = "export"]
                 /\ UNCHANGED genai_configured
       ELSE /\ genai_configured' = TRUE
            /\ accessed' = Touch(accessed, "genai", 0, t)
            /\ sh_pc' = [sh_pc EXCEPT ![t] = "generate"]
            /\ UNCHANGED global_logger
    /\ UNCHANGED <<sh_identify_speakers, sh_ai_model>>
    /\ ShFrame

\* genai.GenerativeModel(...).generate_content(...): the model is given no key, it
\* uses the configuration of the package
ShGenerate(t) ==
    /\ sh_pc[t] = "generate"
    /\ accessed' = Touch(accessed, "genai", 0, t)
    /\ sh_pc' = [sh_pc EXCEPT ![t] = "export"]
    /\ UNCHANGED <<sh_identify_speakers, sh_ai_model, global_logger, genai_configured>>
    /\ ShFrame

\* the exports and the rest of the metrics; process_file returns
ShExport(t) ==
    /\ sh_pc[t] = "export"
    /\ accessed' = Touch(accessed, "metrics", t, t)
    /\ sh_pc' = [sh_pc EXCEPT ![t] = "done"]
    /\ UNCHANGED <<sh_identify_speakers, sh_ai_model, global_logger, genai_configured>>
    /\ ShFrame

ShNext ==
    \/ \E t \in Files : ShPipeline(t)
    \/ \E t \in Files : ShIdentify(t)
    \/ \E t \in Files : ShGenerate(t)
    \/ \E t \in Files : ShExport(t)

\* C29: batch worker tasks share no mutable pipeline state: no object or module-level
\* variable that the task of one file writes during its processing is read or
\* written by the task of another file.
C29_NoSharedMutableState ==
    \A o \in DOMAIN accessed : Cardinality(accessed[o]) <= 1


(***************************************************************************)
(* The mappings that stage2_identify_speakers writes: the AI response as   *)
(* identify_speakers returns it for the model, then Stage 2's own          *)
(* validate_mappings and its correction.                                   *)
(***************************************************************************)
PreAnalyses ==
    [meeting_type : {"1-on-1", "interview"},
     mentioned_names : {{}, {"Bob"}, {"Alice", "Bob"}, {"alice", "Bob"}},
     self_introductions : {<<>>, <<Entry("SPEAKER_00", "alice")>>}]
NoPreAnalysis == [meeting_type |-> "none", mentioned_names |-> {}, self_introductions |-> <<>>]

PersistIdle ==
    /\ p_ai_model = ""
    /\ ai_response = <<>>
    /\ p_seg_labels = <<>>
    /\ pre_analysis = NoPreAnalysis
    /\ p_mappings = <<>>
    /\ persisted = <<>>
    /\ p_pc = "idle"

\* Stage 2 has loaded the transcript and pre-analysed it; the AI will answer ai_response
PersistInit ==
    /\ p_ai_model \in IdentifyModels
    /\ ai_response \in RawMappings
    /\ p_seg_labels \in {<<>>, <<"SPEAKER_00", "SPEAKER_01">>,
                         <<"SPEAKER_00", "SPEAKER_01", "SPEAKER_02", "SPEAKER_01">>}
    /\ pre_analysis \in PreAnalyses
    /\ p_mappings = <<>>
    /\ persisted = <<>>
    /\ p_pc = "identify"

\* `if validation.corrected_mappings: mappings = validation.corrected_mappings`
ApplyCorrection(m, mtype) ==
    IF HasCorrection(m, mtype) /\ CorrectedMappings(m, mtype) # <<>>
    THEN CorrectedMappings(m, mtype)
    ELSE m

\* _identify_with_openai: mentioned_only is pre_analysis.mentioned_names, replaced by
\* identify_actual_speakers_vs_mentioned's 'mentioned_only' when there are segments
OpenAiMentionedOnly(pre, labels) ==
    IF labels # <<>>
    THEN MentionedOnly(pre.mentioned_names, pre.self_introductions)
    ELSE pre.mentioned_names

\* _identify_with_openai's post-processing: correction, 1-on-1 enforcement, filter
OpenAiPostProcess(m, pre, labels) ==
    LET corrected == ApplyCorrection(m, pre.meeting_type)
        enforced == IF pre.meeting_type = "1-on-1" /\ labels # <<>>
                    THEN EnforceOneOnOne(corrected, labels)
                    ELSE corrected
    IN  IF OpenAiMentionedOnly(pre, labels) # {}
        THEN FilterMentionedNames(enforced, OpenAiMentionedOnly(pre, labels))
        ELSE enforced

\* identify_speakers: _identify_with_openai gets segments and pre_analysis,
\* _identify_with_gemini gets neither and returns the parsed mappings as they are
PersistIdentify ==
    /\ p_pc = "identify"
    /\ p_mappings' = IF p_ai_model \in OpenAiModels
                     THEN OpenAiPostProcess(ai_response, pre_analysis, p_seg_labels)
                     ELSE ai_response
    /\ p_pc' = "validate"
    /\ UNCHANGED <<p_ai_model, ai_response, p_seg_labels, pre_analysis, persisted>>
    /\ PersistFrame

\* Stage 2: validate_mappings(...) and the correction it may carry
PersistValidate ==
    /\ p_pc = "validate"
    /\ p_mappings' = ApplyCorrection(p_mappings, pre_analysis.meeting_type)
    /\ p_pc' = "save"
    /\ UNCHANGED <<p_ai_model, ai_response, p_seg_labels, pre_analysis, persisted>>
    /\ PersistFrame

\* mapping_data = {..., "mappings": mappings, ...}; json.dump(mapping_data, f)
PersistSave ==
    /\ p_pc = "save"
    /\ persisted' = p_mappings
    /\ p_pc' = "saved"
    /\ UNCHANGED <<p_ai_model, ai_response, p_seg_labels, pre_analysis, p_mappings>>
    /\ PersistFrame

PersistNext == PersistIdentify \/ PersistValidate \/ PersistSave

\* C30: for every AI response and every supported AI model, the mappings persisted in
\* the Stage-2 artifact hold no value that is a mentioned-only name of the transcript
\* (mentioned in the speech, self-introduced by no speaker).
C30_NoMentionedOnlyPersisted ==
    p_pc = "saved" =>
        Values(persisted)
            \cap MentionedOnly(pre_analysis.mentioned_names,
                               pre_analysis.self_introductions) = {}

(***************************************************************************)
(* AI request/response logging in _identify_with_openai                    *)
(* (speaker_identifier.py 177, 217-223, 365-378; ai_logger.py 16-109).     *)
(* log_request opens a new file and dumps the request; log_response opens  *)
(* the request file, loads it, and writes the response file.  Neither      *)
(* method nor either call site has a try.                                  *)
(***************************************************************************)
LogSegLabels == <<"SPEAKER_00", "SPEAKER_01">>

\* the outcome of one open()/json.dump()/json.load() sequence on the log directory
LogOutcomes == {"ok", "OSError"}

LogIdle ==
    /\ lg_model = ""
    /\ lg_response = <<>>
    /\ lg_pre = NoPreAnalysis
    /\ lg_mappings = <<>>
    /\ request_log = "absent"
    /\ response_log = "absent"
    /\ lg_log_failed = FALSE
    /\ lg_returned = FALSE
    /\ lg_result = <<>>
    /\ lg_pc = "idle"

\* _identify_with_openai has built the prompt and got the logger (line 177)
LogInit ==
    /\ lg_model \in OpenAiModels
    /\ lg_response \in RawMappings
    /\ lg_pre \in PreAnalyses
    /\ lg_mappings = <<>>
    /\ request_log = "absent"
    /\ response_log = "absent"
    /\ lg_log_failed = FALSE
    /\ lg_returned = FALSE
    /\ lg_result = <<>>
    /\ lg_pc = "log_request"

\* request_log_file = ai_logger.log_request(...): an exception of open() or
\* json.dump() leaves log_request and, with no handler around the call, the function
LgLogRequest ==
    /\ lg_pc = "log_request"
    /\ \E outcome \in LogOutcomes :
         IF outcome = "ok"
         THEN /\ request_log' = "written"
              /\ lg_pc' = "chat"
              /\ UNCHANGED lg_log_failed
         ELSE /\ lg_log_failed' = TRUE
              /\ lg_pc' = "raised"
              /\ UNCHANGED request_log
    /\ UNCHANGED <<lg_model, lg_response, lg_pre, lg_mappings, response_log, lg_returned,
                   lg_result>>
    /\ LogFrame

\* the chat completion answers; mappings are parsed and post-processed (239-333)
LgChat ==
    /\ lg_pc = "chat"
    /\ lg_mappings' = OpenAiPostProcess(lg_response, lg_pre, LogSegLabels)
    /\ lg_pc' = "log_response"
    /\ UNCHANGED <<lg_model, lg_response, lg_pre, request_log, response_log, lg_log_failed,
                   lg_returned, lg_result>>
    /\ LogFrame

\* ai_logger.log_response(...) and then `return SpeakerIdentificationResult(...)`:
\* the return statement comes after the call, so an exception of log_response
\* (reading the request file back, or writing the response file) leaves the
\* function before anything is returned
LgLogResponse ==
    /\ lg_pc = "log_response"
    /\ \E outcome \in LogOutcomes :
         IF outcome = "ok"
         THEN /\ response_log' = "written"
              /\ lg_returned' = TRUE
              /\ lg_result' = lg_mappings
              /\ lg_pc' = "returned"
              /\ UNCHANGED lg_log_failed
         ELSE /\ lg_log_failed' = TRUE
              /\ lg_pc' = "raised"
              /\ UNCHANGED <<response_log, lg_returned, lg_result>>
    /\ UNCHANGED <<lg_model, lg_response, lg_pre, lg_mappings, request_log>>
    /\ LogFrame

LogNext == LgLogRequest \/ LgChat \/ LgLogResponse

\* C31: a failure of log_request or log_response never aborts speaker
\* identification: whenever one of them raised, the identification call still
\* returns the mappings produced from the AI response.
C31_LoggingFailureTolerated ==
    (lg_log_failed /\ lg_pc \in {"returned", "raised"})
        => (lg_returned /\ lg_result = lg_mappings /\ lg_pc = "returned")

(***************************************************************************)
(* Interrupted artifact writes (pipeline_stages.py 22-31, 276-278) and the *)
(* lookups that read the file back (cache_manager.py 83-157).              *)
(* The JSON text is a sequence of tokens; an interrupted write leaves a    *)
(* prefix of it, whose last string may be cut before its closing quote.    *)
(***************************************************************************)
Punct(c) == [kind |-> "punct", text |-> c]
JsonStr(s) == [kind |-> "str", text |-> s]
\* a number or null
JsonLit(n) == [kind |-> "lit", text |-> n]
\* a string literal that stops before its closing quote
CutStr(s) == [kind |-> "cut", text |-> s]

CutAudioPath == "/work/meeting.mp3"
CutStage1Path == "/work/out/meeting_stage1_transcript.json"

\* json.dump(data, f) of IntermediateTranscript.save: audio_file, segments, metadata
Stage1Document(whisper_model) ==
    <<Punct("{"), JsonStr("audio_file"), Punct(":"), JsonStr(CutAudioPath), Punct(","),
      JsonStr("segments"), Punct(":"), Punct("["),
          Punct("{"), JsonStr("start_ms"), Punct(":"), JsonLit("0"), Punct(","),
                      JsonStr("speaker"), Punct(":"), JsonStr("SPEAKER_00"), Punct(","),
                      JsonStr("text"), Punct(":"), JsonStr("hello"), Punct("}"),
      Punct("]"), Punct(","),
      JsonStr("metadata"), Punct(":"),
          Punct("{"), JsonStr("model"), Punct(":"), JsonStr(whisper_model), Punct("}"),
      Punct("}")>>

\* json.dump(mapping_data, f) of stage2_identify_speakers
Stage2Document(ai_model) ==
    <<Punct("{"), JsonStr("source_file"), Punct(":"), JsonStr(CutStage1Path), Punct(","),
      JsonStr("ai_model"), Punct(":"), JsonStr(ai_model), Punct(","),
      JsonStr("speaker_context"), Punct(":"), JsonLit("null"), Punct(","),
      JsonStr("mappings"), Punct(":"),
          Punct("{"), JsonStr("SPEAKER_00"), Punct(":"), JsonStr("Alice"), Punct("}"),
      Punct(","),
      JsonStr("validation"), Punct(":"),
          Punct("{"), JsonStr("issues"), Punct(":"), Punct("["), Punct("]"), Punct("}"),
      Punct("}")>>

RECURSIVE ParseValue(_, _), ParseElements(_, _), ParseMembers(_, _)
\* the JSON decoder: the index after the value that starts at token i, 0 when the
\* tokens from i on do not start with a complete value
ParseValue(t, i) ==
    IF i > Len(t) THEN 0
    ELSE CASE t[i].kind \in {"str", "lit"} -> i + 1
           [] t[i] = Punct("[") ->
                IF i + 1 <= Len(t) /\ t[i + 1] = Punct("]") THEN i + 2
                ELSE ParseElements(t, i + 1)
           [] t[i] = Punct("{") ->
                IF i + 1 <= Len(t) /\ t[i + 1] = Punct("}") THEN i + 2
                ELSE ParseMembers(t, i + 1)
           [] OTHER -> 0
ParseElements(t, i) ==
    LET j == ParseValue(t, i)
    IN  IF j = 0 \/ j > Len(t) THEN 0
        ELSE IF t[j] = Punct("]") THEN j + 1
        ELSE IF t[j] = Punct(",") THEN ParseElements(t, j + 1)
        ELSE 0
ParseMembers(t, i) ==
    IF i + 1 > Len(t) \/ t[i].kind # "str" \/ t[i + 1] # Punct(":") THEN 0
    ELSE LET j == ParseValue(t, i + 2)
         IN  IF j = 0 \/ j > Len(t) THEN 0
             ELSE IF t[j] = Punct("}") THEN j + 1
             ELSE IF t[j] = Punct(",") THEN ParseMembers(t, j + 1)
             ELSE 0

\* the mutation of json.load: a decoder that takes what it has read so far
JsonLoadsLenient(t) == t # <<>> /\ \A i \in 1 .. Len(t) : t[i].kind # "cut"

\* json.load(f) returns (it raises JSONDecodeError unless the whole text is one value)
JsonLoads(t) == ParseValue(t, 1) = Len(t) + 1

\* cache_data.get(key, "") of a loaded object, for the keys the lookups read
JsonGet(t, key) ==
    LET at == {i \in 1 .. Len(t) - 2 : t[i] = JsonStr(key) /\ t[i + 1] = Punct(":")}
    IN  IF at = {} THEN ""
        ELSE LET i == CHOOSE k \in at : \A l \in at : k <= l
             IN  IF t[i + 2].kind = "str" THEN t[i + 2].text ELSE ""

NoCutFile == [exists |-> FALSE, content |-> <<>>]

CutIdle ==
    /\ cut_stage = 0
    /\ cut_model = ""
    /\ cut_check_model = ""
    /\ cut_document = <<>>
    /\ cut_file = NoCutFile
    /\ cut_interrupted = FALSE
    /\ cut_hit = FALSE
    /\ cut_pc = "idle"

\* a stage is about to save its artifact; an earlier run may have left a complete one
CutInit ==
    /\ cut_stage \in {1, 2}
    /\ cut_model \in IF cut_stage = 1 THEN WhisperModels ELSE AiModels
    /\ cut_check_model \in IF cut_stage = 1 THEN WhisperModels ELSE AiModels
    /\ cut_document = IF cut_stage = 1 THEN Stage1Document(cut_model)
                      ELSE Stage2Document(cut_model)
    /\ cut_file \in {NoCutFile, [exists |-> TRUE, content |-> cut_document]}
    /\ cut_interrupted = FALSE
    /\ cut_hit = FALSE
    /\ cut_pc = "open"

\* `with open(output_path, 'w', encoding='utf-8') as f`: the file exists and is empty
CutOpen ==
    /\ cut_pc = "open"
    /\ cut_file' = [exists |-> TRUE, content |-> <<>>]
    /\ cut_pc' = "dump"
    /\ UNCHANGED <<cut_stage, cut_model, cut_check_model, cut_document, cut_interrupted,
                   cut_hit>>
    /\ CutFrame

\* json.dump writes the text piece by piece
CutWrite ==
    /\ cut_pc = "dump"
    /\ Len(cut_file.content) < Len(cut_document)
    /\ cut_file' = [cut_file EXCEPT !.content =
                        Append(@, cut_document[Len(cut_file.content) + 1])]
    /\ UNCHANGED <<cut_stage, cut_model, cut_check_model, cut_document, cut_interrupted,
                   cut_hit, cut_pc>>
    /\ CutFrame

\* the process dies (or json.dump raises) before the text is complete: the file keeps
\* what was written, which may end inside the next string
CutInterrupt ==
    /\ cut_pc = "dump"
    /\ Len(cut_file.content) < Len(cut_document)
    /\ LET next == cut_document[Len(cut_file.content) + 1]
       IN  \E inside \in BOOLEAN :
             cut_file' = IF inside /\ next.kind = "str"
                         THEN [cut_file EXCEPT !.content = Append(@, CutStr(next.text))]
                         ELSE cut_file
    /\ cut_interrupted' = TRUE
    /\ cut_pc' = "crashed"
    /\ UNCHANGED <<cut_stage, cut_model, cut_check_model, cut_document, cut_hit>>
    /\ CutFrame

\* the with block ends after the last piece
CutClose ==
    /\ cut_pc = "dump"
    /\ Len(cut_file.content) = Len(cut_document)
    /\ cut_pc' = "saved"
    /\ UNCHANGED <<cut_stage, cut_model, cut_check_model, cut_document, cut_file,
                   cut_interrupted, cut_hit>>
    /\ CutFrame

\* the try block of a lookup: json.load, then the comparisons; an exception is
\* swallowed by `except Exception: pass`
CutLookup(path_key, path, model_key, model) ==
    /\ cut_file.exists
    /\ \/ JsonLoads(cut_file.content)
       \/ ~ExceptException("JSONDecodeError")
    /\ JsonGet(cut_file.content, path_key) = path
    /\ JsonGet(cut_file.content, model_key) = model

\* a later run: is_stage1_cached(audio_path, output_dir, whisper_model=...)
CutCheckStage1 ==
    /\ cut_pc \in {"crashed", "saved"}
    /\ cut_stage = 1
    /\ cut_hit' = CutLookup("audio_file", CutAudioPath, "model", cut_check_model)
    /\ cut_pc' = "checked"
    /\ UNCHANGED <<cut_stage, cut_model, cut_check_model, cut_document, cut_file,
                   cut_interrupted>>
    /\ CutFrame

\* a later run: is_stage2_cached(stage1_file, audio_path, output_dir, ai_model=...)
CutCheckStage2 ==
    /\ cut_pc \in {"crashed", "saved"}
    /\ cut_stage = 2
    /\ cut_hit' = CutLookup("source_file", CutStage1Path, "ai_model", cut_check_model)
    /\ cut_pc' = "checked"
    /\ UNCHANGED <<cut_stage, cut_model, cut_check_model, cut_document, cut_file,
                   cut_interrupted>>
    /\ CutFrame

CutNext ==
    CutOpen \/ CutWrite \/ CutInterrupt \/ CutClose \/ CutCheckStage1 \/ CutCheckStage2

\* C32: when the write of a Stage-1 or Stage-2 artifact is interrupted after the
\* file was opened and before the JSON document is complete, a later cache check on
\* that path reports a miss.
C32_PartialArtifactIsMiss ==
    (cut_pc = "checked" /\ cut_interrupted) => ~cut_hit

\* an interrupted write that had already written the keys the lookup compares, looked
\* up with the same arguments
C32_Witness ==
    /\ cut_pc = "checked"
    /\ cut_interrupted
    /\ cut_check_model = cut_model
    /\ Len(cut_file.content) = Len(cut_document) - 1
    /\ ~cut_hit

\* a completed write is a hit for the same arguments
CompleteWriteIsHit ==
    (cut_pc = "checked" /\ ~cut_interrupted /\ cut_check_model = cut_model) => cut_hit

(***************************************************************************)
(* Meeting-type detection (speaker_quality_analyzer.py 137-166).           *)
(* A text is a sequence of word and separator tokens; `term in text` is    *)
(* the occurrence of the term's tokens as a contiguous run.                *)
(***************************************************************************)
\* str.lower() on the tokens in use
LowerToken(w) ==
    CASE w = "Interview" -> "interview"
      [] w = "Review" -> "review"
      [] w = "Performance" -> "performance"
      [] w = "One" -> "one"
      [] w = "Team" -> "team"
      [] w = "Hi" -> "hi"
      [] w = "I'm" -> "i'm"
      [] w = "My" -> "my"
      [] w = "Thanks" -> "thanks"
      [] w = "Alice" -> "alice"
      [] w = "Bob" -> "bob"
      [] w = "Carol" -> "carol"
      [] OTHER -> w
Lower(text) == [i \in 1 .. Len(text) |-> LowerToken(text[i])]

\* `term in text`
Contains(text, term) ==
    \E i \in 1 .. (Len(text) - Len(term) + 1) : SubSeq(text, i, i + Len(term) - 1) = term
\* any(term in text for term in terms)
HasAny(text, terms) == \E term \in terms : Contains(text, term)

OneOnOneTerms ==
    {<<"1", "on", "1">>, <<"1", "-", "on", "-", "1">>,
     <<"one", "-", "on", "-", "one">>, <<"1", " ", "on", " ", "1">>}
InterviewTerm == <<"interview">>
ReviewTerms == {<<"review">>, <<"performance">>, <<"quarterly">>}
GroupTerms == {<<"team">>, <<"group">>, <<"panel">>}

\* the audio paths and contexts looked at; every audio path ends in its extension
DetectFilenames ==
    {<<>>,
     <<"/", "work", "/", "meeting", ".", "mp3">>,
     <<"1", "on", "1", "_", "alice", ".", "m4a">>,
     <<"Interview", "_", "1", "-", "on", "-", "1", ".", "mp3">>,
     <<"quarterly", "_", "Review", ".", "mp3">>,
     <<"Performance", "_", "interview", ".", "mp3">>,
     <<"/", "Team", "/", "sync", "_", "1", ".", "mp3">>}
DetectContexts ==
    {<<>>,
     <<"One", "-", "on", "-", "one", " ", "with", " ", "Tim">>,
     <<"panel", " ", "Interview">>,
     <<"Review", " ", "1", " ", "on", " ", "1">>,
     <<"group", " ", "call">>,
     <<"weekly", " ", "sync">>,
     <<"on", " ", "1", " ", "quarterly">>}

DetectIdle ==
    /\ det_filename = <<>>
    /\ det_context = <<>>
    /\ det_speaker_count = 0
    /\ text_to_check = <<>>
    /\ det_result = "unset"
    /\ det_pc = "idle"

DetectInit ==
    /\ det_filename \in DetectFilenames
    /\ det_context \in DetectContexts
    /\ det_speaker_count \in 0 .. MaxSpeakers
    /\ text_to_check = <<>>
    /\ det_result = "unset"
    /\ det_pc = "text"

\* text_to_check += " " + filename.lower(); text_to_check += " " + context.lower()
DetBuildText ==
    /\ det_pc = "text"
    /\ text_to_check' =
         (IF det_filename # <<>> THEN <<" ">> \o Lower(det_filename) ELSE <<>>)
         \o (IF det_context # <<>> THEN <<" ">> \o Lower(det_context) ELSE <<>>)
    /\ det_pc' = "marker"
    /\ UNCHANGED <<det_filename, det_context, det_speaker_count, det_result>>
    /\ DetectFrame

\* the mutation of the first test: the marker does not win over the interview keyword
MarkerWinsUnlessInterview(text) ==
    HasAny(text, OneOnOneTerms) /\ ~Contains(text, InterviewTerm)

\* any(term in text_to_check for term in ['1on1', '1-on-1', 'one-on-one', '1 on 1'])
MarkerWins(text) == HasAny(text, OneOnOneTerms)

\* 1-on-1 detection
DetMarker ==
    /\ det_pc = "marker"
    /\ IF MarkerWins(text_to_check)
       THEN det_result' = "1-on-1" /\ det_pc' = "returned"
       ELSE det_result' = det_result /\ det_pc' = "interview"
    /\ UNCHANGED <<det_filename, det_context, det_speaker_count, text_to_check>>
    /\ DetectFrame

\* Interview detection
DetInterview ==
    /\ det_pc = "interview"
    /\ IF Contains(text_to_check, InterviewTerm)
       THEN det_result' = "interview" /\ det_pc' = "returned"
       ELSE det_result' = det_result /\ det_pc' = "review"
    /\ UNCHANGED <<det_filename, det_context, det_speaker_count, text_to_check>>
    /\ DetectFrame

\* Review detection
DetReview ==
    /\ det_pc = "review"
    /\ IF HasAny(text_to_check, ReviewTerms)
       THEN det_result' = "review" /\ det_pc' = "returned"
       ELSE det_result' = det_result /\ det_pc' = "count"
    /\ UNCHANGED <<det_filename, det_context, det_speaker_count, text_to_check>>
    /\ DetectFrame

\* two speakers and no team/group/panel: 1-on-1; else `return None`
DetCount ==
    /\ det_pc = "count"
    /\ det_result' = IF det_speaker_count = 2 /\ ~HasAny(text_to_check, GroupTerms)
                     THEN "1-on-1"
                     ELSE "none"
    /\ det_pc' = "returned"
    /\ UNCHANGED <<det_filename, det_context, det_speaker_count, text_to_check>>
    /\ DetectFrame

DetectNext == DetBuildText \/ DetMarker \/ DetInterview \/ DetReview \/ DetCount

\* the filename or the context (lower-cased) holds one of the terms
EitherHas(terms) ==
    HasAny(Lower(det_filename), terms) \/ HasAny(Lower(det_context), terms)

\* C34: meeting-type detection returns 1-on-1 whenever the filename or the context
\* holds a 1-on-1 marker, even with interview or review keywords present; otherwise
\* interview when that keyword is present; otherwise review when review, performance
\* or quarterly is present; otherwise 1-on-1 exactly when the unique label count is 2
\* and none of team, group, panel is present; otherwise unknown.
C34_DetectionPriority ==
    det_pc = "returned" =>
        det_result =
            IF EitherHas(OneOnOneTerms) THEN "1-on-1"
            ELSE IF EitherHas({InterviewTerm}) THEN "interview"
            ELSE IF EitherHas(ReviewTerms) THEN "review"
            ELSE IF det_speaker_count = 2 /\ ~EitherHas(GroupTerms) THEN "1-on-1"
            ELSE "none"

\* a marker in the filename together with the interview keyword: 1-on-1 is returned
C34_Witness ==
    /\ det_pc = "returned"
    /\ Contains(Lower(det_filename), <<"1", "-", "on", "-", "1">>)
    /\ Contains(Lower(det_filename), InterviewTerm)
    /\ det_result = "1-on-1"

(***************************************************************************)
(* Self-introductions and mentioned names (speaker_quality_analyzer.py     *)
(* 76-134, 236-258) and the filter the Stage-2 path applies to them.       *)
(* A text is a sequence of words; a regular expression of the code is the  *)
(* set of word phrases it accepts in front of (or behind) the captured     *)
(* name.  re.IGNORECASE makes `[A-Z][a-z]+` accept any word of two or more *)
(* letters.                                                                *)
(***************************************************************************)
MaxSegments == 3

\* `([A-Z][a-z]+)` under re.IGNORECASE: a run of two or more letters
IsName(w) == w \notin {"I", "i", "a", "I'm", "i'm"}

Greetings == {<<"hi">>, <<"hello">>, <<"hey">>}
\* intro_patterns, in order: each is a set of phrases followed by the name
IntroPatterns ==
    <<{g \o p : g \in Greetings,
                p \in {<<"this", "is">>, <<"i'm">>, <<"i", "am">>, <<"my", "name", "is">>}},
      {<<"this", "is">>, <<"i'm">>, <<"i", "am">>},
      {<<"my", "name", "is">>}>>

\* the phrases of a pattern that match at word i, with a name behind them
MatchAt(text, phrases, i) ==
    {p \in phrases : /\ i + Len(p) <= Len(text)
                     /\ SubSeq(text, i, i + Len(p) - 1) = p
                     /\ IsName(text[i + Len(p)])}

\* re.search(pattern, text): the position of the name of the leftmost match, 0 for None
SearchName(text, phrases) ==
    LET starts == {i \in 1 .. Len(text) : MatchAt(text, phrases, i) # {}}
    IN  IF starts = {} THEN 0
        ELSE LET i == CHOOSE k \in starts : \A l \in starts : k <= l
             IN  i + Len(CHOOSE p \in MatchAt(text, phrases, i) : TRUE)

\* the loop over intro_patterns with its break: the first pattern that matches decides
IntroPosition(text) ==
    LET hits == {n \in 1 .. Len(IntroPatterns) : SearchName(text, IntroPatterns[n]) # 0}
    IN  IF hits = {} THEN 0
        ELSE SearchName(text, IntroPatterns[CHOOSE n \in hits : \A o \in hits : n <= o])

\* the first two patterns of _extract_mentioned_names: phrases followed by the name
MentionPatterns ==
    <<{<<"thanks">>, <<"thank", "you">>, <<"hi">>, <<"hello">>, <<"hey">>},
      {<<"this", "is">>, <<"i'm">>, <<"i", "am">>, <<"my", "name", "is">>}>>
\* the third: NAME said|mentioned|told|asked
MentionVerbs == {"said", "mentioned", "told", "asked"}
\* the fourth: NAME's meeting|call|interview, for the possessives in use
PossessiveOf(w) == CASE w = "Bob's" -> "Bob" [] OTHER -> ""
PossessiveNouns == {"meeting", "call", "interview"}
CommonWords == {"the", "this", "that", "there", "here"}

RECURSIVE FindAll(_, _, _)
\* re.findall(pattern, text): the name positions of the matches, found left to right,
\* the search going on behind each match
FindAll(text, phrases, i) ==
    IF i > Len(text) THEN {}
    ELSE IF MatchAt(text, phrases, i) = {} THEN FindAll(text, phrases, i + 1)
    ELSE LET k == i + Len(CHOOSE p \in MatchAt(text, phrases, i) : TRUE)
         IN  {k} \cup FindAll(text, phrases, k + 1)

\* the names _extract_mentioned_names takes from one text: the match is
\* case-insensitive, the captured name keeps its case
MentionedIn(text) ==
    LET low == Lower(text)
        after == UNION {FindAll(low, MentionPatterns[n], 1) : n \in 1 .. Len(MentionPatterns)}
        before == {k \in 1 .. (Len(text) - 1) : IsName(low[k]) /\ low[k + 1] \in MentionVerbs}
        owners == {PossessiveOf(text[k]) : k \in {j \in 1 .. (Len(text) - 1) :
                        PossessiveOf(text[j]) # "" /\ low[j + 1] \in PossessiveNouns}}
    IN  {text[k] : k \in {j \in after \cup before : low[j] \notin CommonWords}} \cup owners

SampleSegments ==
    {[speaker |-> "SPEAKER_00", text |-> <<"Hi", "I'm", "Alice">>],
     [speaker |-> "SPEAKER_00", text |-> <<"this", "is", "Carol", "speaking">>],
     [speaker |-> "SPEAKER_01", text |-> <<"My", "name", "is", "Bob">>],
     [speaker |-> "SPEAKER_01", text |-> <<"i'm", "bob", "hi", "this", "is", "alice">>],
     [speaker |-> "SPEAKER_01", text |-> <<"Thanks", "Alice", "Carol", "said", "Bob's", "call">>],
     [speaker |-> "SPEAKER_00", text |-> <<>>],
     [speaker |-> "", text |-> <<"I'm", "Carol">>]}
Transcripts == UNION {[1 .. n -> SampleSegments] : n \in 0 .. MaxSegments}

IntroIdle ==
    /\ si_segments = <<>>
    /\ si_idx = 0
    /\ intros = <<>>
    /\ si_mentioned = {}
    /\ si_mentioned_only = {}
    /\ si_mappings = <<>>
    /\ si_filtered = <<>>
    /\ si_pc = "idle"

IntroInit ==
    /\ si_segments \in Transcripts
    /\ si_idx = 1
    /\ intros = <<>>
    /\ si_mentioned = {}
    /\ si_mentioned_only = {}
    /\ si_mappings = <<>>
    /\ si_filtered = <<>>
    /\ si_pc = "intros"

\* the mutation of the guard of the assignment: a later match replaces the name
RecordLatest(m, speaker, name) ==
    IF speaker \in Keys(m)
    THEN [i \in 1 .. Len(m) |-> IF m[i].label = speaker THEN Entry(speaker, name) ELSE m[i]]
    ELSE Append(m, Entry(speaker, name))

\* `if speaker not in intros: intros[speaker] = name`
RecordFirst(m, speaker, name) ==
    IF speaker \in Keys(m) THEN m ELSE Append(m, Entry(speaker, name))

\* one round of `for seg in segments` in _find_self_introductions
IntroStep ==
    /\ si_pc = "intros"
    /\ si_idx <= Len(si_segments)
    /\ LET speaker == si_segments[si_idx].speaker
           text == Lower(si_segments[si_idx].text)
       IN  intros' = IF text = <<>> \/ speaker = "" \/ IntroPosition(text) = 0
                     THEN intros
                     ELSE RecordFirst(intros, speaker, text[IntroPosition(text)])
    /\ si_idx' = si_idx + 1
    /\ UNCHANGED <<si_segments, si_mentioned, si_mentioned_only, si_mappings, si_filtered,
                   si_pc>>
    /\ IntroFrame

\* `return intros`
IntroReturn ==
    /\ si_pc = "intros"
    /\ si_idx > Len(si_segments)
    /\ si_pc' = "mentioned"
    /\ UNCHANGED <<si_segments, si_idx, intros, si_mentioned, si_mentioned_only,
                   si_mappings, si_filtered>>
    /\ IntroFrame

\* mentioned_names = _extract_mentioned_names(segments)
IntroMentioned ==
    /\ si_pc = "mentioned"
    /\ si_mentioned' = UNION {MentionedIn(si_segments[i].text) : i \in 1 .. Len(si_segments)}
    /\ si_pc' = "split"
    /\ UNCHANGED <<si_segments, si_idx, intros, si_mentioned_only, si_mappings, si_filtered>>
    /\ IntroFrame

\* identify_actual_speakers_vs_mentioned(segments, analysis)
IntroSplit ==
    /\ si_pc = "split"
    /\ si_mentioned_only' = MentionedOnly(si_mentioned, intros)
    /\ si_pc' = "filter"
    /\ UNCHANGED <<si_segments, si_idx, intros, si_mentioned, si_mappings, si_filtered>>
    /\ IntroFrame

\* the segments in which the speaker of a label introduces themself
IntroSegments(label) ==
    {i \in 1 .. Len(si_segments) :
        /\ si_segments[i].speaker = label
        /\ IntroPosition(Lower(si_segments[i].text)) # 0}
\* the name as spoken in the earliest of them
SpokenName(label) ==
    LET i == CHOOSE k \in IntroSegments(label) : \A l \in IntroSegments(label) : k <= l
    IN  si_segments[i].text[IntroPosition(Lower(si_segments[i].text))]
IntroLabels == {"SPEAKER_00", "SPEAKER_01"}

\* the AI maps every introduced label to the name its speaker gave, and
\* _identify_with_openai filters: `if mentioned_only: mappings = filter_mentioned_names(...)`
IntroFilter ==
    /\ si_pc = "filter"
    /\ LET labels == SelectSeq(<<"SPEAKER_00", "SPEAKER_01">>,
                               LAMBDA l : IntroSegments(l) # {})
           m == [i \in 1 .. Len(labels) |-> Entry(labels[i], SpokenName(labels[i]))]
       IN  /\ si_mappings' = m
           /\ si_filtered' = IF si_mentioned_only # {}
                             THEN FilterMentionedNames(m, si_mentioned_only)
                             ELSE m
    /\ si_pc' = "done"
    /\ UNCHANGED <<si_segments, si_idx, intros, si_mentioned, si_mentioned_only>>
    /\ IntroFrame

IntroNext == IntroStep \/ IntroReturn \/ IntroMentioned \/ IntroSplit \/ IntroFilter

\* C35: for every speaker label, the self-introduction recorded for the label is the
\* name of the earliest segment of that label whose text matches an introduction
\* pattern; a later matching segment of the same label never overwrites it, and a
\* label without a matching segment has no entry.
C35_FirstIntroductionKept ==
    si_pc # "intros" /\ si_pc # "idle" =>
        \A label \in IntroLabels :
            IF IntroSegments(label) = {}
            THEN label \notin Keys(intros)
            ELSE /\ label \in Keys(intros)
                 /\ Lookup(intros, label) = LowerToken(SpokenName(label))

\* a label with two introductions that give different names: the first is kept
C35_Witness ==
    /\ si_pc = "mentioned"
    /\ Len(si_segments) = 3
    /\ si_segments[1] = [speaker |-> "SPEAKER_00", text |-> <<"Hi", "I'm", "Alice">>]
    /\ si_segments[3] = [speaker |-> "SPEAKER_00", text |-> <<"this", "is", "Carol", "speaking">>]
    /\ Lookup(intros, "SPEAKER_00") = "alice"

\* C37: a name with which some speaker introduces themself in the transcript text is
\* not a member of mentioned_only, so a mapping of the label to that name is not
\* replaced by a generic placeholder by filter_mentioned_names.
C37_SelfIntroducedNotMentionedOnly ==
    si_pc = "done" =>
        /\ \A label \in IntroLabels :
               IntroSegments(label) # {} => SpokenName(label) \notin si_mentioned_only
        /\ si_filtered = si_mappings

(***************************************************************************)
(* Stage 3 (pipeline_stages.py 290-392): the mappings of the Stage-2       *)
(* artifact are applied to the segments of the Stage-1 artifact and the    *)
(* segment lists are handed to the exporters.                              *)
(***************************************************************************)
Stage3Segments ==
    {[start_ms |-> 0, end_ms |-> 1000, text |-> "hello", speaker |-> "SPEAKER_00"],
     [start_ms |-> 1000, end_ms |-> 2000, text |-> "hi there", speaker |-> "SPEAKER_01"],
     [start_ms |-> 2000, end_ms |-> 2500, text |-> "bye", speaker |-> "SPEAKER_00"],
     [start_ms |-> 2500, end_ms |-> 3000, text |-> "thanks", speaker |-> "SPEAKER_02"]}
Stage3Transcripts == UNION {[1 .. n -> Stage3Segments] : n \in 0 .. MaxSegments}
\* the mappings a Stage-2 artifact may hold; a name may be spelt like another label
Stage3Mappings ==
    {<<>>,
     <<Entry("SPEAKER_00", "Alice")>>,
     <<Entry("SPEAKER_01", "Bob"), Entry("SPEAKER_00", "Alice")>>,
     <<Entry("SPEAKER_01", "SPEAKER_00"), Entry("SPEAKER_00", "Alice")>>}
Stage3Formats == {{"txt", "json", "srt"}, {"txt"}, {"json", "docx"}}

Stage3Idle ==
    /\ s3_segments = <<>>
    /\ s3_mapping_file = "none"
    /\ s3_file_mappings = <<>>
    /\ s3_formats = {}
    /\ s3_mappings = <<>>
    /\ segments_generic = <<>>
    /\ segments_named = <<>>
    /\ written_files = <<>>
    /\ s3_pc = "idle"

\* the intermediate transcript is loaded
Stage3Init ==
    /\ s3_segments \in Stage3Transcripts
    /\ s3_mapping_file \in {"none", "missing", "file"}
    /\ s3_file_mappings \in IF s3_mapping_file = "file" THEN Stage3Mappings ELSE {<<>>}
    /\ s3_formats \in Stage3Formats
    /\ s3_mappings = <<>>
    /\ segments_generic = <<>>
    /\ segments_named = <<>>
    /\ written_files = <<>>
    /\ s3_pc = "load"

\* mappings = {}; if speaker_mapping_file and os.path.exists(...): mappings = ...
S3LoadMappings ==
    /\ s3_pc = "load"
    /\ s3_mappings' = IF s3_mapping_file = "file" THEN s3_file_mappings ELSE <<>>
    /\ s3_pc' = "convert"
    /\ UNCHANGED <<s3_segments, s3_mapping_file, s3_file_mappings, s3_formats,
                   segments_generic, segments_named, written_files>>
    /\ Stage3Frame

\* the mutation of the lookup: a label without a mapping becomes "Unknown"
GetOrUnknown(m, label) == IF label \in Keys(m) THEN Lookup(m, label) ELSE "Unknown"

\* mappings.get(seg['speaker'], seg['speaker'])
GetOrLabel(m, label) == IF label \in Keys(m) THEN Lookup(m, label) ELSE label

\* the two list comprehensions over intermediate.segments
S3Convert ==
    /\ s3_pc = "convert"
    /\ segments_generic' = s3_segments
    /\ segments_named' =
         [i \in 1 .. Len(s3_segments) |->
             [start_ms |-> s3_segments[i].start_ms,
              end_ms |-> s3_segments[i].end_ms,
              text |-> s3_segments[i].text,
              speaker |-> GetOrLabel(s3_mappings, s3_segments[i].speaker)]]
    /\ s3_pc' = "txt"
    /\ UNCHANGED <<s3_segments, s3_mapping_file, s3_file_mappings, s3_formats, s3_mappings,
                   written_files>>
    /\ Stage3Frame

\* what an exporter is called with
Exported(file, segments) == [file |-> file, segments |-> segments]

\* if "txt" in formats: export_txt(segments_generic, ...)
S3ExportTxt ==
    /\ s3_pc = "txt"
    /\ written_files' = IF "txt" \in s3_formats
                        THEN Append(written_files, Exported("meeting.txt", segments_generic))
                        ELSE written_files
    /\ s3_pc' = "speakers"
    /\ UNCHANGED <<s3_segments, s3_mapping_file, s3_file_mappings, s3_formats, s3_mappings,
                   segments_generic, segments_named>>
    /\ Stage3Frame

\* if "txt" in formats and mappings: export_txt_with_speakers(segments_named, ...)
S3ExportSpeakersTxt ==
    /\ s3_pc = "speakers"
    /\ written_files' =
         IF "txt" \in s3_formats /\ s3_mappings # <<>>
         THEN Append(written_files, Exported("meeting_speakers.txt", segments_named))
         ELSE written_files
    /\ s3_pc' = "others"
    /\ UNCHANGED <<s3_segments, s3_mapping_file, s3_file_mappings, s3_formats, s3_mappings,
                   segments_generic, segments_named>>
    /\ Stage3Frame

\* json, srt and docx get segments_named; a failing docx export is skipped
S3ExportOthers ==
    /\ s3_pc = "others"
    /\ \E docx_ok \in BOOLEAN :
         written_files' =
             written_files
             \o (IF "json" \in s3_formats
                 THEN <<Exported("meeting.json", segments_named)>> ELSE <<>>)
             \o (IF "srt" \in s3_formats
                 THEN <<Exported("meeting.srt", segments_named)>> ELSE <<>>)
             \o (IF "docx" \in s3_formats /\ docx_ok
                 THEN <<Exported("meeting.docx", segments_named)>> ELSE <<>>)
    /\ s3_pc' = "done"
    /\ UNCHANGED <<s3_segments, s3_mapping_file, s3_file_mappings, s3_formats, s3_mappings,
                   segments_generic, segments_named>>
    /\ Stage3Frame

Stage3Next ==
    S3LoadMappings \/ S3Convert \/ S3ExportTxt \/ S3ExportSpeakersTxt \/ S3ExportOthers

\* the mappings of the Stage-2 file, none when no file is given or the file is missing
GivenMappings == IF s3_mapping_file = "file" THEN s3_file_mappings ELSE <<>>

RefineMappings ==
    {[i \in 1 .. n |-> Entry(LabelTable[i], IF i = n THEN last ELSE "Alice")] :
        n \in 0 .. MaxMapped, last \in {"Alice", "Bob", "Unknown"}}
\* scores on both sides of the threshold
RefineScores == {QualityThreshold - 1, QualityThreshold, 10}

NoValidation == [is_valid |-> FALSE, issues |-> <<>>, needs_refinement |-> FALSE,
                 corrected_mappings |-> <<>>, confidence |-> ""]

\* validate_mappings(mappings, diarization_speaker_count, meeting_type, filename, analysis)
ValidateMappings(m, count, mtype, fname, a) ==
    LET one_on_one == mtype = "1-on-1" /\ Len(m) # 2
        unknown == UnknownCount(m) > 0 /\ fname = "names"
        all_issues ==
            (IF one_on_one
             THEN IF Len(m) > 2 THEN <<"expected_2", "auto_corrected">> ELSE <<"expected_2">>
             ELSE <<>>)
            \o (IF Len(m) # count THEN <<"count_mismatch">> ELSE <<>>)
            \o (IF unknown THEN <<"unknown_despite_names">> ELSE <<>>)
            \o (IF a # "none" THEN MentionedWarnings(m, MentionedOnlyOf(a)) ELSE <<>>)
        refine == \/ one_on_one
                  \/ (Len(m) # count /\ CountAsksRefinement(Len(m), count))
                  \/ unknown
    IN  [is_valid |-> IsValid(Len(all_issues), refine),
         issues |-> all_issues,
         needs_refinement |-> refine,
         \* `corrected_mappings if corrected_mappings != mappings else None`
         corrected_mappings |-> IF HasCorrection(m, mtype) THEN CorrectedMappings(m, mtype)
                                ELSE <<>>,
         confidence |-> Confidence(Len(all_issues), refine)]

RefineIdle ==
    /\ rf_mappings = <<>>
    /\ rf_speaker_count = 0
    /\ rf_meeting_type = "none"
    /\ rf_filename = "none"
    /\ rf_analysis = "none"
    /\ rf_quality_score = 0
    /\ validation = NoValidation
    /\ rf_trigger = "unset"
    /\ rf_pc = "idle"

RefineInit ==
    /\ rf_mappings \in RefineMappings
    /\ rf_speaker_count \in 0 .. MaxSpeakers
    /\ rf_meeting_type \in {"1-on-1", "interview", "none"}
    /\ rf_filename \in Filenames
    /\ rf_analysis \in Analyses
    /\ rf_quality_score \in RefineScores
    /\ validation = NoValidation
    /\ rf_trigger = "unset"
    /\ rf_pc = "validate"

\* validation = validate_mappings(...)
RfValidate ==
    /\ rf_pc = "validate"
    /\ validation' = ValidateMappings(rf_mappings, rf_speaker_count, rf_meeting_type,
                                      rf_filename, rf_analysis)
    /\ rf_pc' = "valid"
    /\ UNCHANGED <<rf_mappings, rf_speaker_count, rf_meeting_type, rf_filename, rf_analysis,
                   rf_quality_score, rf_trigger>>
    /\ RefineFrame

\* should_trigger_refinement: `if not validation_result.is_valid: return True`
RfCheckValid ==
    /\ rf_pc = "valid"
    /\ IF ~validation.is_valid
       THEN rf_trigger' = "true" /\ rf_pc' = "returned"
       ELSE rf_trigger' = rf_trigger /\ rf_pc' = "score"
    /\ UNCHANGED <<rf_mappings, rf_speaker_count, rf_meeting_type, rf_filename, rf_analysis,
                   rf_quality_score, validation>>
    /\ RefineFrame

\* `if quality_score < 0.6: return True`
RfCheckScore ==
    /\ rf_pc = "score"
    /\ IF IsLowQuality(rf_quality_score)
       THEN rf_trigger' = "true" /\ rf_pc' = "returned"
       ELSE rf_trigger' = rf_trigger /\ rf_pc' = "flag"
    /\ UNCHANGED <<rf_mappings, rf_speaker_count, rf_meeting_type, rf_filename, rf_analysis,
                   rf_quality_score, validation>>
    /\ RefineFrame

\* `if validation_result.needs_refinement: return True`, else `return False`
RfCheckFlag ==
    /\ rf_pc = "flag"
    /\ rf_trigger' = IF validation.needs_refinement THEN "true" ELSE "false"
    /\ rf_pc' = "returned"
    /\ UNCHANGED <<rf_mappings, rf_speaker_count, rf_meeting_type, rf_filename, rf_analysis,
                   rf_quality_score, validation>>
    /\ RefineFrame

RefineNext == RfValidate \/ RfCheckValid \/ RfCheckScore \/ RfCheckFlag

\* C38: in every result of validate_mappings, needs_refinement true implies is_valid
\* false, and a non-empty corrected mapping implies needs_refinement true and
\* confidence "low"; so should_trigger_refinement on such a result is true exactly
\* when is_valid is false or the quality score is below 0.6.
C38_RefinementImpliesInvalid ==
    rf_pc \notin {"idle", "validate"} =>
        /\ validation.needs_refinement => ~validation.is_valid
        /\ validation.corrected_mappings # <<>> =>
               validation.needs_refinement /\ validation.confidence = "low"
        /\ rf_pc = "returned" =>
               (rf_trigger = "true" <=> (~validation.is_valid \/ rf_quality_score < 6))

\* a corrected 1-on-1 result with a good score: the trigger is returned for the
\* invalid result alone
C38_Witness ==
    /\ rf_pc = "returned"
    /\ validation.corrected_mappings # <<>>
    /\ validation.needs_refinement
    /\ rf_quality_score = 10
    /\ rf_trigger = "true"

\* a valid result with a good score passes the three tests and gives False
RefineNotTriggered ==
    /\ rf_pc = "returned"
    /\ validation.is_valid
    /\ Len(validation.issues) = 1
    /\ rf_trigger = "false"

\* C39: in single-file processing with identification enabled and an OpenAI-family
\* model, identify_speakers (called without a pre-analysis) reaches the AI service,
\* and whenever the service answers with a non-empty mapping, that mapping is
\* applied to the segments' speaker labels before the export.
C39_SingleFileMappingsApplied ==
    (/\ entry = "single"
     /\ fp_identify_speakers
     /\ fp_ai_model \in OpenAiModels
     /\ fp_pc = "returned")
        => /\ CallsOf("chat") # <<>>
           /\ (\E i \in 1 .. Len(service_calls) :
                   service_calls[i].service = "chat" /\ service_calls[i].outcome = "mappings")
                 => written = "named"

(***************************************************************************)
(* The temporary WAV file of run_diarization (diarization.py 24-150).      *)
(* An M4A input is converted into a file made by tempfile.mkstemp; the     *)
(* only statement that removes it is the finally clause of the try around  *)
(* the pipeline call.                                                      *)
(***************************************************************************)
DiarAudioPaths == {"meeting.m4a", "MEETING.M4A", "meeting.mp3", "meeting.wav"}
\* audio_path.lower().endswith('.m4a')
IsM4a(path) == path \in {"meeting.m4a", "MEETING.M4A"}

DiarIdle ==
    /\ dz_audio_path = ""
    /\ dz_token = "none"
    /\ dz_cuda = FALSE
    /\ temp_wav_path = "none"
    /\ temp_wav_exists = FALSE
    /\ dz_input = ""
    /\ dz_exit = "none"
    /\ dz_pc = "idle"

DiarInit ==
    /\ dz_audio_path \in DiarAudioPaths
    /\ dz_token \in {"argument", "environment", "none"}
    /\ dz_cuda \in BOOLEAN
    /\ temp_wav_path = "none"
    /\ temp_wav_exists = FALSE
    /\ dz_input = dz_audio_path
    /\ dz_exit = "none"
    /\ dz_pc = "token"

\* token = hf_token or os.getenv(...); `if not token: raise ValueError`
DzToken ==
    /\ dz_pc = "token"
    /\ IF dz_token = "none"
       THEN dz_exit' = "raised" /\ dz_pc' = "exit"
       ELSE dz_exit' = dz_exit /\ dz_pc' = "convert"
    /\ UNCHANGED <<dz_audio_path, dz_token, dz_cuda, temp_wav_path, temp_wav_exists,
                   dz_input>>
    /\ DiarFrame

\* the conversion of an M4A input: mkstemp makes the file, then pydub loads and
\* exports; a missing ffmpeg (or another OSError) is raised, any other exception is
\* printed and the original file is used
DzConvert ==
    /\ dz_pc = "convert"
    /\ IF IsM4a(dz_audio_path)
       THEN \E outcome \in {"converted", "OSError", "Exception", "ImportError"} :
              \* without pydub the import fails before mkstemp is reached
              /\ temp_wav_path' = IF outcome = "ImportError" THEN "none" ELSE "tmp.wav"
              /\ temp_wav_exists' = (outcome # "ImportError")
              /\ dz_input' = IF outcome = "converted" THEN "tmp.wav" ELSE dz_input
              /\ IF outcome = "OSError"
                 THEN dz_exit' = "raised" /\ dz_pc' = "exit"
                 ELSE dz_exit' = dz_exit /\ dz_pc' = "load"
       ELSE /\ dz_pc' = "load"
            /\ UNCHANGED <<temp_wav_path, temp_wav_exists, dz_input, dz_exit>>
    /\ UNCHANGED <<dz_audio_path, dz_token, dz_cuda>>
    /\ DiarFrame

\* Pipeline.from_pretrained(...): its try has an except that raises (ValueError for a
\* gated model, the exception itself otherwise) and no finally
DzLoadModel ==
    /\ dz_pc = "load"
    /\ \E outcome \in {"loaded", "gated", "error"} :
         IF outcome = "loaded"
         THEN dz_exit' = dz_exit /\ dz_pc' = "device"
         ELSE dz_exit' = "raised" /\ dz_pc' = "exit"
    /\ UNCHANGED <<dz_audio_path, dz_token, dz_cuda, temp_wav_path, temp_wav_exists,
                   dz_input>>
    /\ DiarFrame

\* if torch.cuda.is_available(): pipeline.to(torch.device("cuda")), outside any try
DzDevice ==
    /\ dz_pc = "device"
    /\ \E moved \in BOOLEAN :
         IF dz_cuda /\ ~moved
         THEN dz_exit' = "raised" /\ dz_pc' = "exit"
         ELSE dz_exit' = dz_exit /\ dz_pc' = "run"
    /\ UNCHANGED <<dz_audio_path, dz_token, dz_cuda, temp_wav_path, temp_wav_exists,
                   dz_input>>
    /\ DiarFrame

\* try: diarization_result = pipeline(audio_path); ...; return segments
DzRun ==
    /\ dz_pc = "run"
    /\ \E outcome \in {"returned", "raised"} : dz_exit' = outcome
    /\ dz_pc' = "finally"
    /\ UNCHANGED <<dz_audio_path, dz_token, dz_cuda, temp_wav_path, temp_wav_exists,
                   dz_input>>
    /\ DiarFrame

\* finally: if temp_wav_path and os.path.exists(temp_wav_path): try os.remove except pass
DzFinally ==
    /\ dz_pc = "finally"
    /\ \E removed \in BOOLEAN :
         temp_wav_exists' = IF temp_wav_path # "none" /\ temp_wav_exists /\ removed
                            THEN FALSE
                            ELSE temp_wav_exists
    /\ dz_pc' = "exit"
    /\ UNCHANGED <<dz_audio_path, dz_token, dz_cuda, temp_wav_path, dz_input, dz_exit>>
    /\ DiarFrame

DiarNext == DzToken \/ DzConvert \/ DzLoadModel \/ DzDevice \/ DzRun \/ DzFinally

\* C40: on every exit path of run_diarization for an M4A input (normal return,
\* failure while loading the diarization model, failure while running it), the
\* temporary WAV file created for the conversion no longer exists when the function
\* returns or raises.
C40_TempWavRemoved ==
    (dz_pc = "exit" /\ IsM4a(dz_audio_path) /\ dz_input = "tmp.wav") => ~temp_wav_exists

(***************************************************************************)
(* Specifications: one per subsystem.                                      *)
(***************************************************************************)
InitAlign == AlignInit /\ ValIdle /\ KeyIdle /\ Stage1Idle /\ Stage2Idle /\ BatchIdle
    /\ QaIdle /\ RetryIdle /\ VmIdle /\ TrigIdle /\ FileIdle /\ WrIdle /\ ShIdle
    /\ PersistIdle /\ LogIdle /\ CutIdle /\ DetectIdle /\ IntroIdle /\ Stage3Idle
    /\ RefineIdle /\ DiarIdle
SpecAlign == InitAlign /\ [][AlignNext]_vars

InitValidate == ValInit /\ AlignIdle /\ KeyIdle /\ Stage1Idle /\ Stage2Idle /\ BatchIdle
    /\ QaIdle /\ RetryIdle /\ VmIdle /\ TrigIdle /\ FileIdle /\ WrIdle /\ ShIdle
    /\ PersistIdle /\ LogIdle /\ CutIdle /\ DetectIdle /\ IntroIdle /\ Stage3Idle
    /\ RefineIdle /\ DiarIdle
SpecValidate == InitValidate /\ [][ValNext]_vars

InitFilter == FilterInit /\ AlignIdle /\ KeyIdle /\ Stage1Idle /\ Stage2Idle /\ BatchIdle
    /\ QaIdle /\ RetryIdle /\ VmIdle /\ TrigIdle /\ FileIdle /\ WrIdle /\ ShIdle
    /\ PersistIdle /\ LogIdle /\ CutIdle /\ DetectIdle /\ IntroIdle /\ Stage3Idle
    /\ RefineIdle /\ DiarIdle
FilterNext == FilterCall
SpecFilter == InitFilter /\ [][FilterNext]_vars

InitKey == KeyInit /\ AlignIdle /\ ValIdle /\ Stage1Idle /\ Stage2Idle /\ BatchIdle
    /\ QaIdle /\ RetryIdle /\ VmIdle /\ TrigIdle /\ FileIdle /\ WrIdle /\ ShIdle
    /\ PersistIdle /\ LogIdle /\ CutIdle /\ DetectIdle /\ IntroIdle /\ Stage3Idle
    /\ RefineIdle /\ DiarIdle
KeyNext == GetCacheKeyCalls
SpecKey == InitKey /\ [][KeyNext]_vars

InitStage1 == Stage1Init /\ AlignIdle /\ ValIdle /\ KeyIdle /\ Stage2Idle /\ BatchIdle
    /\ QaIdle /\ RetryIdle /\ VmIdle /\ TrigIdle /\ FileIdle /\ WrIdle /\ ShIdle
    /\ PersistIdle /\ LogIdle /\ CutIdle /\ DetectIdle /\ IntroIdle /\ Stage3Idle
    /\ RefineIdle /\ DiarIdle
SpecStage1 == InitStage1 /\ [][Stage1Next]_vars

InitStage2 == Stage2Init /\ AlignIdle /\ ValIdle /\ KeyIdle /\ BatchIdle /\ QaIdle
    /\ RetryIdle /\ VmIdle /\ TrigIdle /\ FileIdle /\ WrIdle /\ ShIdle /\ PersistIdle
    /\ LogIdle /\ CutIdle /\ DetectIdle /\ IntroIdle /\ Stage3Idle /\ RefineIdle
    /\ DiarIdle
SpecStage2 == InitStage2 /\ [][Stage2Next]_vars

InitBatch == BatchInit /\ AlignIdle /\ ValIdle /\ KeyIdle /\ Stage1Idle /\ Stage2Idle
    /\ QaIdle /\ RetryIdle /\ VmIdle /\ TrigIdle /\ FileIdle /\ WrIdle /\ ShIdle
    /\ PersistIdle /\ LogIdle /\ CutIdle /\ DetectIdle /\ IntroIdle /\ Stage3Idle
    /\ RefineIdle /\ DiarIdle
SpecBatch == InitBatch /\ [][BatchNext]_vars

InitQuality == QaInit /\ AlignIdle /\ ValIdle /\ KeyIdle /\ Stage1Idle /\ Stage2Idle
    /\ BatchIdle /\ RetryIdle /\ VmIdle /\ TrigIdle /\ FileIdle /\ WrIdle /\ ShIdle
    /\ PersistIdle /\ LogIdle /\ CutIdle /\ DetectIdle /\ IntroIdle /\ Stage3Idle
    /\ RefineIdle /\ DiarIdle
SpecQuality == InitQuality /\ [][QaNext]_vars

InitRetry == RetryInit /\ AlignIdle /\ ValIdle /\ KeyIdle /\ Stage1Idle /\ Stage2Idle
    /\ BatchIdle /\ QaIdle /\ VmIdle /\ TrigIdle /\ FileIdle /\ WrIdle /\ ShIdle
    /\ PersistIdle /\ LogIdle /\ CutIdle /\ DetectIdle /\ IntroIdle /\ Stage3Idle
    /\ RefineIdle /\ DiarIdle
SpecRetry == InitRetry /\ [][RetryNext]_vars

InitCache == CacheInit /\ AlignIdle /\ ValIdle /\ KeyIdle /\ BatchIdle /\ QaIdle
    /\ RetryIdle /\ VmIdle /\ TrigIdle /\ FileIdle /\ WrIdle /\ ShIdle /\ PersistIdle
    /\ LogIdle /\ CutIdle /\ DetectIdle /\ IntroIdle /\ Stage3Idle /\ RefineIdle
    /\ DiarIdle
SpecCache == InitCache /\ [][CacheNext]_vars

InitEnforce == EnforceInit /\ AlignIdle /\ KeyIdle /\ Stage1Idle /\ Stage2Idle /\ BatchIdle
    /\ QaIdle /\ RetryIdle /\ VmIdle /\ TrigIdle /\ FileIdle /\ WrIdle /\ ShIdle
    /\ PersistIdle /\ LogIdle /\ CutIdle /\ DetectIdle /\ IntroIdle /\ Stage3Idle
    /\ RefineIdle /\ DiarIdle
EnforceNext == EnforceCall
SpecEnforce == InitEnforce /\ [][EnforceNext]_vars

InitValidateMappings == VmInit /\ AlignIdle /\ ValIdle /\ KeyIdle /\ Stage1Idle
    /\ Stage2Idle /\ BatchIdle /\ QaIdle /\ RetryIdle /\ TrigIdle /\ FileIdle /\ WrIdle
    /\ ShIdle /\ PersistIdle /\ LogIdle /\ CutIdle /\ DetectIdle /\ IntroIdle
    /\ Stage3Idle /\ RefineIdle /\ DiarIdle
SpecValidateMappings == InitValidateMappings /\ [][VmNext]_vars

InitTrigger == TrigInit /\ AlignIdle /\ ValIdle /\ KeyIdle /\ Stage1Idle /\ Stage2Idle
    /\ BatchIdle /\ QaIdle /\ RetryIdle /\ VmIdle /\ FileIdle /\ WrIdle /\ ShIdle
    /\ PersistIdle /\ LogIdle /\ CutIdle /\ DetectIdle /\ IntroIdle /\ Stage3Idle
    /\ RefineIdle /\ DiarIdle
SpecTrigger == InitTrigger /\ [][TrigNext]_vars

InitFile == FileInit /\ AlignIdle /\ ValIdle /\ KeyIdle /\ Stage1Idle /\ Stage2Idle
    /\ BatchIdle /\ QaIdle /\ RetryIdle /\ VmIdle /\ TrigIdle /\ WrIdle /\ ShIdle
    /\ PersistIdle /\ LogIdle /\ CutIdle /\ DetectIdle /\ IntroIdle /\ Stage3Idle
    /\ RefineIdle /\ DiarIdle
SpecFile == InitFile /\ [][FileNext]_vars

InitWrites == WrInit /\ AlignIdle /\ ValIdle /\ KeyIdle /\ Stage1Idle /\ Stage2Idle
    /\ BatchIdle /\ QaIdle /\ RetryIdle /\ VmIdle /\ TrigIdle /\ FileIdle /\ ShIdle
    /\ PersistIdle /\ LogIdle /\ CutIdle /\ DetectIdle /\ IntroIdle /\ Stage3Idle
    /\ RefineIdle /\ DiarIdle
SpecWrites == InitWrites /\ [][WrNext]_vars

InitShared == ShInit /\ AlignIdle /\ ValIdle /\ KeyIdle /\ Stage1Idle /\ Stage2Idle
    /\ BatchIdle /\ QaIdle /\ RetryIdle /\ VmIdle /\ TrigIdle /\ FileIdle /\ WrIdle
    /\ PersistIdle /\ LogIdle /\ CutIdle /\ DetectIdle /\ IntroIdle /\ Stage3Idle
    /\ RefineIdle /\ DiarIdle
SpecShared == InitShared /\ [][ShNext]_vars

InitPersist == PersistInit /\ AlignIdle /\ ValIdle /\ KeyIdle /\ Stage1Idle
    /\ Stage2Idle /\ BatchIdle /\ QaIdle /\ RetryIdle /\ VmIdle /\ TrigIdle /\ FileIdle
    /\ WrIdle /\ ShIdle /\ LogIdle /\ CutIdle /\ DetectIdle /\ IntroIdle /\ Stage3Idle
    /\ RefineIdle /\ DiarIdle
SpecPersist == InitPersist /\ [][PersistNext]_vars

InitLog == LogInit /\ AlignIdle /\ ValIdle /\ KeyIdle /\ Stage1Idle /\ Stage2Idle
    /\ BatchIdle /\ QaIdle /\ RetryIdle /\ VmIdle /\ TrigIdle /\ FileIdle /\ WrIdle
    /\ ShIdle /\ PersistIdle /\ CutIdle /\ DetectIdle /\ IntroIdle /\ Stage3Idle
    /\ RefineIdle /\ DiarIdle
SpecLog == InitLog /\ [][LogNext]_vars

InitCut == CutInit /\ AlignIdle /\ ValIdle /\ KeyIdle /\ Stage1Idle /\ Stage2Idle
    /\ BatchIdle /\ QaIdle /\ RetryIdle /\ VmIdle /\ TrigIdle /\ FileIdle /\ WrIdle
    /\ ShIdle /\ PersistIdle /\ LogIdle /\ DetectIdle /\ IntroIdle /\ Stage3Idle
    /\ RefineIdle /\ DiarIdle
SpecCut == InitCut /\ [][CutNext]_vars

InitDetect == DetectInit /\ AlignIdle /\ ValIdle /\ KeyIdle /\ Stage1Idle /\ Stage2Idle
    /\ BatchIdle /\ QaIdle /\ RetryIdle /\ VmIdle /\ TrigIdle /\ FileIdle /\ WrIdle
    /\ ShIdle /\ PersistIdle /\ LogIdle /\ CutIdle /\ IntroIdle /\ Stage3Idle
    /\ RefineIdle /\ DiarIdle
SpecDetect == InitDetect /\ [][DetectNext]_vars

InitIntro == IntroInit /\ AlignIdle /\ ValIdle /\ KeyIdle /\ Stage1Idle /\ Stage2Idle
    /\ BatchIdle /\ QaIdle /\ RetryIdle /\ VmIdle /\ TrigIdle /\ FileIdle /\ WrIdle
    /\ ShIdle /\ PersistIdle /\ LogIdle /\ CutIdle /\ DetectIdle /\ Stage3Idle
    /\ RefineIdle /\ DiarIdle
SpecIntro == InitIntro /\ [][IntroNext]_vars

InitStage3 == Stage3Init /\ AlignIdle /\ ValIdle /\ KeyIdle /\ Stage1Idle /\ Stage2Idle
    /\ BatchIdle /\ QaIdle /\ RetryIdle /\ VmIdle /\ TrigIdle /\ FileIdle /\ WrIdle
    /\ ShIdle /\ PersistIdle /\ LogIdle /\ CutIdle /\ DetectIdle /\ IntroIdle
    /\ RefineIdle /\ DiarIdle
SpecStage3 == InitStage3 /\ [][Stage3Next]_vars

InitRefine == RefineInit /\ AlignIdle /\ ValIdle /\ KeyIdle /\ Stage1Idle /\ Stage2Idle
    /\ BatchIdle /\ QaIdle /\ RetryIdle /\ VmIdle /\ TrigIdle /\ FileIdle /\ WrIdle
    /\ ShIdle /\ PersistIdle /\ LogIdle /\ CutIdle /\ DetectIdle /\ IntroIdle
    /\ Stage3Idle /\ DiarIdle
SpecRefine == InitRefine /\ [][RefineNext]_vars

InitDiar == DiarInit /\ AlignIdle /\ ValIdle /\ KeyIdle /\ Stage1Idle /\ Stage2Idle
    /\ BatchIdle /\ QaIdle /\ RetryIdle /\ VmIdle /\ TrigIdle /\ FileIdle /\ WrIdle
    /\ ShIdle /\ PersistIdle /\ LogIdle /\ CutIdle /\ DetectIdle /\ IntroIdle
    /\ Stage3Idle /\ RefineIdle
SpecDiar == InitDiar /\ [][DiarNext]_vars

====
